---- MODULE Spec2Model ----
(***************************************************************************)
(* A model of the ad-insight analysis engine of youtube-adInsights          *)
(* (src/services/youtube.js): the timestamp parser, the sponsorship         *)
(* detector, the insight composer and the per-video report pipeline.        *)
(*                                                                          *)
(* JavaScript strings are sequences of one-character strings.  JavaScript   *)
(* numbers are records [t, v] so that null, NaN and a number are three      *)
(* values that can be compared with one another.                            *)
(***************************************************************************)
EXTENDS Integers, Sequences, FiniteSets, TLC

VARIABLES
  ts,          \* SpecTimestamp: the argument of convertTimestampToSeconds
  tsOut,       \* SpecTimestamp: its return value, or Pending before the call
  description, \* SpecDetect: the description argument of detectSponsorship
  tags,        \* SpecDetect: the tags argument of detectSponsorship
  info,        \* SpecDetect: the returned object, or NoInfo before the call
  run,         \* Spec: one record per call of generateAdInsightsReport
  store,       \* Spec: the Video collection, videoId -> document
  clock,       \* Spec: the wall clock read by new Date()
  batch,       \* SpecBatch: the call of generateChannelAdInsights
  counts,      \* SpecEngagement: the arguments of calculateEngagementMetrics
  metrics,     \* SpecEngagement: the returned object, or NoMetrics before
  commentList, \* SpecSentiment: the argument of analyzeCommentSentiment
  summary,     \* SpecSentiment: the returned object, or NoSummary before
  effIn,       \* SpecEffectiveness: the arguments of calculateAdEffectiveness
  effOut,      \* SpecEffectiveness: its return value, or Pending before
  detectLog,   \* SpecCalls: the calls of detectSponsorship made so far
  adInsightDocs, \* SpecStatus: the AdInsight collection
  http,        \* SpecStatus: the responses of the two channel routes
  refreshLog   \* SpecRefresh: the videos saveVideosToDatabase has handled

\* the variables of the specifications of analyzeCommentSentiment,
\* calculateAdEffectiveness and repeated calls of detectSponsorship
pureCalls == <<commentList, summary, effIn, effOut, detectLog>>

\* the variables of the specifications of the channel routes and of the
\* refresh of the stored videos
web == <<adInsightDocs, http, refreshLog>>

vars == <<ts, tsOut, description, tags, info, run, store, clock, batch, counts,
          metrics, pureCalls, web>>

(***************************************************************************)
(* Bounds of the model.                                                     *)
(***************************************************************************)
\* the largest number of colon-separated parts of a generated timestamp
MaxTsParts == 4
\* the largest number of fragments a generated description is made of
MaxFrags == 3
\* the largest number of tags of a generated video
MaxTags == 1

(***************************************************************************)
(* JavaScript values.                                                       *)
(***************************************************************************)
Num(n) == [t |-> "number", v |-> n]
NaN == [t |-> "NaN", v |-> 0]
Null == [t |-> "null", v |-> 0]
Pending == [t |-> "pending", v |-> 0]

Str(s) == [t |-> "string", v |-> s]
Undefined == [t |-> "undefined", v |-> <<>>]
NullStr == [t |-> "null", v |-> <<>>]

Arr(a) == [t |-> "array", v |-> a]
NoArr == [t |-> "undefined", v |-> <<>>]

\* typeof x === 'number' && !isNaN(x)
IsNum(x) == x.t = "number"

\* a + b, a - b and a * k on JavaScript numbers: NaN is contagious
JsAdd(a, b) == IF IsNum(a) /\ IsNum(b) THEN Num(a.v + b.v) ELSE NaN
JsSub(a, b) == IF IsNum(a) /\ IsNum(b) THEN Num(a.v - b.v) ELSE NaN
JsMul(a, k) == IF IsNum(a) THEN Num(a.v * k) ELSE NaN

\* ToBoolean of a number or null: 0, NaN and null are falsy
TruthyNum(x) == IsNum(x) /\ x.v # 0

\* ToBoolean of a string, null or undefined: only a non-empty string is truthy
TruthyStr(x) == x.t = "string" /\ x.v # <<>>

(***************************************************************************)
(* Characters and strings.                                                  *)
(***************************************************************************)
UpperCase == <<"A","B","C","D","E","F","G","H","I","J","K","L","M",
               "N","O","P","Q","R","S","T","U","V","W","X","Y","Z">>
LowerCase == <<"a","b","c","d","e","f","g","h","i","j","k","l","m",
               "n","o","p","q","r","s","t","u","v","w","x","y","z">>
Digits == <<"0","1","2","3","4","5","6","7","8","9">>

Range(f) == {f[i] : i \in DOMAIN f}

UpperSet == Range(UpperCase)
LowerSet == Range(LowerCase)
DigitSet == Range(Digits)
\* \s of a regular expression, and the white space parseInt and trim strip
WhiteSpace == {" ", "\t", "\n"}

IsUpper(c) == c \in UpperSet
IsLower(c) == c \in LowerSet
IsDigit(c) == c \in DigitSet
IsSpace(c) == c \in WhiteSpace

\* the lower-case letter of each upper-case letter, and the value of each digit
LowerOf == [c \in UpperSet |-> LowerCase[CHOOSE i \in DOMAIN UpperCase : UpperCase[i] = c]]
ValueOf == [c \in DigitSet |-> (CHOOSE i \in DOMAIN Digits : Digits[i] = c) - 1]

DigitVal(c) == ValueOf[c]
LowerChar(c) == IF IsUpper(c) THEN LowerOf[c] ELSE c

\* String.prototype.toLowerCase
RECURSIVE LowerFrom(_, _)
LowerFrom(s, i) ==
  IF i > Len(s) THEN <<>> ELSE <<LowerChar(s[i])>> \o LowerFrom(s, i + 1)

toLowerCase(s) == LowerFrom(s, 1)

\* whether w occurs in s at position p (1-based)
OccursAt(s, w, p) ==
  /\ p >= 1
  /\ p + Len(w) - 1 <= Len(s)
  /\ \A k \in 1..Len(w) : s[p + k - 1] = w[k]

\* whether w, in lower case, occurs in s at position p when case is ignored,
\* as under the i flag of a regular expression
OccursAtIgnoreCase(s, w, p) ==
  /\ p >= 1
  /\ p + Len(w) - 1 <= Len(s)
  /\ \A k \in 1..Len(w) : LowerChar(s[p + k - 1]) = w[k]

\* String.prototype.includes
includes(s, w) == \E p \in 1..(Len(s) + 1) : OccursAt(s, w, p)

\* the number of characters from position p on that satisfy the class
RECURSIVE RunLen(_, _, _)
RunLen(s, p, digit) ==
  IF p > Len(s) THEN 0
  ELSE IF (digit /\ IsDigit(s[p])) \/ (~digit /\ IsSpace(s[p]))
       THEN 1 + RunLen(s, p + 1, digit)
       ELSE 0

DigitRun(s, p) == RunLen(s, p, TRUE)
SpaceRun(s, p) == RunLen(s, p, FALSE)

\* the value of a string of decimal digits
RECURSIVE DecimalValue(_)
DecimalValue(s) ==
  IF s = <<>> THEN 0
  ELSE 10 * DecimalValue(SubSeq(s, 1, Len(s) - 1)) + DigitVal(s[Len(s)])

\* String.prototype.split with a one-character separator
RECURSIVE SplitFrom(_, _, _, _)
SplitFrom(s, sep, p, cur) ==
  IF p > Len(s) THEN <<cur>>
  ELSE IF s[p] = sep THEN <<cur>> \o SplitFrom(s, sep, p + 1, <<>>)
       ELSE SplitFrom(s, sep, p + 1, Append(cur, s[p]))

split(s, sep) == SplitFrom(s, sep, 1, <<>>)

\* Array.prototype.join
RECURSIVE join(_, _)
join(parts, sep) ==
  IF parts = <<>> THEN <<>>
  ELSE IF Len(parts) = 1 THEN parts[1]
       ELSE parts[1] \o sep \o join(Tail(parts), sep)

\* parseInt(s, 10): white space is skipped, a sign is read, and the longest
\* run of digits that follows is the value; NaN when there is no digit
parseInt(s) ==
  LET a == SubSeq(s, SpaceRun(s, 1) + 1, Len(s))
      signed == a # <<>> /\ a[1] \in {"+", "-"}
      b == IF signed THEN Tail(a) ELSE a
      n == DigitRun(b, 1)
      value == DecimalValue(SubSeq(b, 1, n))
  IN  IF n = 0 THEN NaN
      ELSE IF signed /\ a[1] = "-" THEN Num(0 - value) ELSE Num(value)

(***************************************************************************)
(* convertTimestampToSeconds                                                *)
(***************************************************************************)
\* the h:m:s branch with the hours weighted like minutes
convertTimestampToSeconds_Weights(timestamp) ==
  IF ~TruthyStr(timestamp) THEN Null
  ELSE LET parts == split(timestamp.v, ":")
       IN  IF Len(parts) = 1 THEN parseInt(parts[1])
           ELSE IF Len(parts) = 2
                THEN JsAdd(JsMul(parseInt(parts[1]), 60), parseInt(parts[2]))
           ELSE IF Len(parts) = 3
                THEN JsAdd(JsAdd(JsMul(parseInt(parts[1]), 60),
                                 JsMul(parseInt(parts[2]), 60)),
                           parseInt(parts[3]))
           ELSE Null

convertTimestampToSeconds(timestamp) ==
  IF ~TruthyStr(timestamp) THEN Null
  ELSE LET parts == split(timestamp.v, ":")
       IN  IF Len(parts) = 1 THEN parseInt(parts[1])
           ELSE IF Len(parts) = 2
                THEN JsAdd(JsMul(parseInt(parts[1]), 60), parseInt(parts[2]))
           ELSE IF Len(parts) = 3
                THEN JsAdd(JsAdd(JsMul(parseInt(parts[1]), 3600),
                                 JsMul(parseInt(parts[2]), 60)),
                           parseInt(parts[3]))
           ELSE Null

(***************************************************************************)
(* Sequences.                                                               *)
(***************************************************************************)
RECURSIVE Flatten(_)
Flatten(ss) == IF ss = <<>> THEN <<>> ELSE Head(ss) \o Flatten(Tail(ss))

\* the sequences over S of length at most n
RECURSIVE SeqsUpTo(_, _)
SeqsUpTo(S, n) ==
  IF n = 0 THEN {<<>>}
  ELSE LET shorter == SeqsUpTo(S, n - 1)
       IN  shorter \cup {Append(q, x) : q \in shorter, x \in S}

\* hi, hi - 1, ..., lo
Down(hi, lo) == [k \in 1..(hi - lo + 1) |-> hi - k + 1]

Min(S) == CHOOSE m \in S : \A n \in S : m <= n

\* the elements of f that satisfy keep, in order
RECURSIVE SelectIdx(_, _, _)
SelectIdx(f, keep, i) ==
  IF i > Len(f) THEN <<>>
  ELSE (IF i \in keep THEN <<f[i]>> ELSE <<>>) \o SelectIdx(f, keep, i + 1)

\* [...new Set(a)]: the first occurrence of each element, in insertion order
Dedup(a) == SelectIdx(a, {i \in DOMAIN a : \A j \in 1..(i - 1) : a[j] # a[i]}, 1)

\* String.prototype.trim
trim(s) ==
  LET keep == {i \in DOMAIN s : ~IsSpace(s[i])}
  IN  IF keep = {} THEN <<>>
      ELSE SubSeq(s, Min(keep), CHOOSE m \in keep : \A n \in keep : n <= m)

(***************************************************************************)
(* adTimestampRegex: a time, an optional dash, an optional second time and  *)
(* one of four ad words, in any case, with optional white space between.    *)
(* It is matched as a backtracking matcher does: the leftmost start, every  *)
(* quantifier greedy, the alternatives of a choice tried in order.          *)
(***************************************************************************)
AdWords == << <<"a","d">>, <<"s","p","o","n","s","o","r">>, <<"p","r","o","m","o","t","i","o","n">>, <<"s","p","o","n","s","o","r","e","d">> >>

\* the positions after a match of \d+:?\d* that starts at i, in the order a
\* backtracking matcher tries them
TimeEnds(s, i) ==
  LET n == DigitRun(s, i)
      After(q) ==
        (IF q <= Len(s) /\ s[q] = ":"
         THEN Down(q + 1 + DigitRun(s, q + 1), q + 1) ELSE <<>>)
        \o Down(q + DigitRun(s, q), q)
  IN  Flatten([k \in 1..n |-> After(i + n - k + 1)])

\* the positions after a match of \s*-?\s* that starts at q, in that order
SepEnds(s, q) ==
  LET w == SpaceRun(s, q)
      After(r) ==
        (IF r <= Len(s) /\ s[r] = "-"
         THEN Down(r + 1 + SpaceRun(s, r + 1), r + 1) ELSE <<>>)
        \o Down(r + SpaceRun(s, r), r)
  IN  Flatten([k \in 1..(w + 1) |-> After(q + w - k + 1)])

\* the pattern with its last group, the ad word, made optional
TailMatches_Optional(s, p) == TRUE

\* the white space and the ad word that end the pattern match at p, in any case
TailMatches(s, p) ==
  \E a \in 0..SpaceRun(s, p) :
    \E k \in DOMAIN AdWords : OccursAtIgnoreCase(s, AdWords[k], p + a)

\* the second group is optional: first with it, then without it
Group2Options(s, p) ==
  LET e == TimeEnds(s, p)
  IN  [k \in 1..Len(e) |-> [g2 |-> Str(SubSeq(s, p, e[k] - 1)), end |-> e[k]]]
      \o << [g2 |-> Undefined, end |-> p] >>

\* every way to match the pattern up to its last \s* from start i, in order
Candidates(s, i) ==
  LET e1 == TimeEnds(s, i)
      FromSep(g1end) ==
        LET ps == SepEnds(s, g1end)
        IN  Flatten([k \in 1..Len(ps) |->
              LET o == Group2Options(s, ps[k])
              IN  [j \in 1..Len(o) |->
                    [g1 |-> SubSeq(s, i, g1end - 1), g2 |-> o[j].g2,
                     end |-> o[j].end]]])
  IN  Flatten([k \in 1..Len(e1) |-> FromSep(e1[k])])

NoMatch == [matched |-> FALSE, g1 |-> <<>>, g2 |-> Undefined]

\* the first candidate, in the matcher's order, that the ad word follows
FirstMatch(c, k) ==
  IF k > Len(c) THEN NoMatch
  ELSE [matched |-> TRUE, g1 |-> c[k].g1, g2 |-> c[k].g2]

FirstMatching(s, c) ==
  FirstMatch(c, Min({k \in DOMAIN c : TailMatches(s, c[k].end)}
                    \cup {Len(c) + 1}))

MatchAt(s, i) == FirstMatching(s, Candidates(s, i))

\* the match at the leftmost start that has one
OrElse(m, rest) == IF m.matched THEN m ELSE rest

RECURSIVE MatchFrom(_, _)
MatchFrom(s, i) ==
  IF i > Len(s) THEN NoMatch
  ELSE OrElse(MatchAt(s, i), MatchFrom(s, i + 1))

\* description.match(adTimestampRegex): groups 1 and 2 of the first match
adTimestampRegex(s) == MatchFrom(s, 1)

(***************************************************************************)
(* extractBrands                                                            *)
(***************************************************************************)
\* String.prototype.split with a pattern that is one or more characters of
\* seps: a run of separators splits once
RECURSIVE SplitRunsFrom(_, _, _, _)
SplitRunsFrom(s, seps, p, cur) ==
  IF p > Len(s) THEN <<cur>>
  ELSE IF s[p] \in seps
       THEN IF p > 1 /\ s[p - 1] \in seps
            THEN SplitRunsFrom(s, seps, p + 1, cur)
            ELSE <<cur>> \o SplitRunsFrom(s, seps, p + 1, <<>>)
       ELSE SplitRunsFrom(s, seps, p + 1, Append(cur, s[p]))

splitRuns(s, seps) == SplitRunsFrom(s, seps, 1, <<>>)

\* String.prototype.replace(/[...]/g, ''): the characters of drop removed
remove(s, drop) == SelectIdx(s, {i \in DOMAIN s : s[i] \notin drop}, 1)

SentenceEnds == {".", "!", "?"}
WordPunctuation == {",", ".", "!", "?", ";", ":", "(", ")", "\"", "'"}
TrademarkSymbols == {"(R)", "(TM)"}

IsAlnum(c) == IsUpper(c) \/ IsLower(c) \/ IsDigit(c)

\* brandRegex: a capital letter followed by two or more lower-case letters
brandRegex(w) ==
  /\ Len(w) >= 3
  /\ IsUpper(w[1])
  /\ \A i \in 2..Len(w) : IsLower(w[i])

\* the matches of the trademark pattern, symbol and white space stripped: the
\* runs of letters and digits that a trademark symbol follows
trademarkedBrands(text) ==
  LET RunEnd(i) == CHOOSE e \in i..Len(text) :
                     /\ \A k \in i..e : IsAlnum(text[k])
                     /\ (e = Len(text) \/ ~IsAlnum(text[e + 1]))
      Marked(i) == LET q == RunEnd(i) + 1 + SpaceRun(text, RunEnd(i) + 1)
                   IN  q <= Len(text) /\ text[q] \in TrademarkSymbols
      begins == {i \in DOMAIN text :
                   /\ IsAlnum(text[i])
                   /\ (i = 1 \/ ~IsAlnum(text[i - 1]))
                   /\ Marked(i)}
      all == [i \in DOMAIN text |->
                IF i \in begins THEN SubSeq(text, i, RunEnd(i)) ELSE <<>>]
  IN  SelectIdx(all, begins, 1)

extractBrands(text) ==
  LET words == splitRuns(text, WhiteSpace)
      clean == [i \in DOMAIN words |-> remove(words[i], WordPunctuation)]
  IN  SelectIdx(clean, {i \in DOMAIN clean : brandRegex(clean[i])}, 1)
      \o trademarkedBrands(text)

(***************************************************************************)
(* detectSponsorship                                                        *)
(***************************************************************************)
sponsorKeywords == <<
  <<"s","p","o","n","s","o","r">>,
  <<"s","p","o","n","s","o","r","e","d">>,
  <<"p","a","r","t","n","e","r","s","h","i","p">>,
  <<"p","a","r","t","n","e","r","e","d">>,
  <<"p","r","o","m","o","t","i","o","n">>,
  <<"p","r","o","m","o","t","e","d">>,
  <<"t","h","a","n","k","s"," ","t","o">>,
  <<"p","a","i","d"," ","p","r","o","m","o","t","i","o","n">>,
  <<"s","p","o","n","s","o","r","e","d"," ","b","y">>,
  <<"a","f","f","i","l","i","a","t","e">>,
  <<"d","i","s","c","o","u","n","t"," ","c","o","d","e">>,
  <<"p","r","o","m","o"," ","c","o","d","e">>,
  <<"u","s","e"," ","c","o","d","e">>,
  <<"c","l","i","c","k"," ","t","h","e"," ","l","i","n","k">>,
  <<"c","h","e","c","k"," ","o","u","t">>,
  <<"t","h","a","n","k","s"," ","t","o"," ","o","u","r"," ","s","p","o","n","s","o","r">> >>

TimestampIndicator == <<"t","i","m","e","s","t","a","m","p"," ","i","n","d","i","c","a","t","o","r">>

\* the keyword test on the description as written, without lower-casing it
DescriptionKeywords_CaseSensitive(desc) ==
  IF ~TruthyStr(desc) THEN <<>>
  ELSE SelectIdx(sponsorKeywords,
                 {k \in DOMAIN sponsorKeywords :
                    includes(desc.v, sponsorKeywords[k])}, 1)

\* the keywords the loop over the description pushes, in the order of the list
DescriptionKeywords(desc) ==
  IF ~TruthyStr(desc) THEN <<>>
  ELSE LET descriptionLower == toLowerCase(desc.v)
       IN  SelectIdx(sponsorKeywords,
                     {k \in DOMAIN sponsorKeywords :
                        includes(descriptionLower, sponsorKeywords[k])}, 1)

\* the sentences of the description that contain the keyword
KeywordSentences(desc, keyword) ==
  LET sentences == splitRuns(desc.v, SentenceEnds)
  IN  SelectIdx(sentences,
                {i \in DOMAIN sentences :
                   includes(toLowerCase(sentences[i]), keyword)}, 1)

\* what the loop over the description appends to sponsorshipDetails
RECURSIVE DescriptionDetails(_, _)
DescriptionDetails(desc, keywords) ==
  IF keywords = <<>> THEN <<>>
  ELSE LET hit == KeywordSentences(desc, Head(keywords))
       IN  Flatten([i \in DOMAIN hit |-> trim(hit[i]) \o <<".", " ">>])
           \o DescriptionDetails(desc, Tail(keywords))

\* what the loop over the description appends to detectedBrands
RECURSIVE DescriptionBrands(_, _)
DescriptionBrands(desc, keywords) ==
  IF keywords = <<>> THEN <<>>
  ELSE LET hit == KeywordSentences(desc, Head(keywords))
       IN  Flatten([i \in DOMAIN hit |-> extractBrands(hit[i])])
           \o DescriptionBrands(desc, Tail(keywords))

\* the loop over the keywords for one tag pushing only the last keyword of
\* the list the tag contains
TagKeywordLoop_LastMatch(tagLower, k, adIndicators) ==
  LET hits == {j \in DOMAIN sponsorKeywords :
                 /\ j >= k
                 /\ includes(tagLower, sponsorKeywords[j])
                 /\ sponsorKeywords[j] \notin Range(adIndicators)}
  IN  IF hits = {} THEN adIndicators
      ELSE Append(adIndicators,
                  sponsorKeywords[CHOOSE j \in hits : \A i \in hits : i <= j])

\* the loop over the keywords for one tag: a keyword the tag contains is
\* pushed unless adIndicators already holds it
RECURSIVE TagKeywordLoop(_, _, _)
TagKeywordLoop(tagLower, k, adIndicators) ==
  IF k > Len(sponsorKeywords) THEN adIndicators
  ELSE TagKeywordLoop(tagLower, k + 1,
         IF /\ includes(tagLower, sponsorKeywords[k])
            /\ sponsorKeywords[k] \notin Range(adIndicators)
         THEN Append(adIndicators, sponsorKeywords[k])
         ELSE adIndicators)

\* the loop over the tags
RECURSIVE TagLoop(_, _)
TagLoop(tagList, adIndicators) ==
  IF tagList = <<>> THEN adIndicators
  ELSE TagLoop(Tail(tagList),
               TagKeywordLoop(toLowerCase(Head(tagList)), 1, adIndicators))

\* the tags pushed to detectedBrands: longer than 3, starting with a capital
TagBrands(tagList) ==
  SelectIdx(tagList,
            {i \in DOMAIN tagList :
               Len(tagList[i]) > 3 /\ IsUpper(tagList[i][1])}, 1)

\* adDuration: set when the match has a second group and neither timestamp
\* converts to null
AdDuration(m) ==
  IF m.matched /\ TruthyStr(m.g2)
  THEN LET startTime == convertTimestampToSeconds(Str(m.g1))
           endTime == convertTimestampToSeconds(m.g2)
       IN  IF startTime # Null /\ endTime # Null
           THEN JsSub(endTime, startTime) ELSE Null
  ELSE Null

\* the returned object when a timestamp match does not set hasSponsorship
SponsorshipInfo_KeywordsOnly(desc, tagList, fromDescription, fromTags, m) ==
  [hasSponsorship |->
     fromDescription # <<>> \/ Len(fromTags) > Len(fromDescription),
   sponsorshipDetails |->
     trim(DescriptionDetails(desc, fromDescription)
          \o (IF m.matched
              THEN <<"A","d"," ","s","e","g","m","e","n","t"," ","d","e","t","e","c","t","e","d"," ","a","t"," ">> \o m.g1 \o <<".", " ">>
              ELSE <<>>)),
   adIndicators |->
     Dedup(IF m.matched THEN Append(fromTags, TimestampIndicator)
           ELSE fromTags),
   detectedBrands |->
     Dedup(DescriptionBrands(desc, fromDescription) \o TagBrands(tagList)),
   adDuration |-> AdDuration(m)]

\* the returned object, from what the three scans found: the keywords of the
\* description, the indicators after the tag loop and the timestamp match
SponsorshipInfo(desc, tagList, fromDescription, fromTags, m) ==
  [hasSponsorship |->
     fromDescription # <<>> \/ Len(fromTags) > Len(fromDescription)
     \/ m.matched,
   sponsorshipDetails |->
     trim(DescriptionDetails(desc, fromDescription)
          \o (IF m.matched
              THEN <<"A","d"," ","s","e","g","m","e","n","t"," ","d","e","t","e","c","t","e","d"," ","a","t"," ">> \o m.g1 \o <<".", " ">>
              ELSE <<>>)),
   adIndicators |->
     Dedup(IF m.matched THEN Append(fromTags, TimestampIndicator)
           ELSE fromTags),
   detectedBrands |->
     Dedup(DescriptionBrands(desc, fromDescription) \o TagBrands(tagList)),
   adDuration |-> AdDuration(m)]

AfterDescription(desc, tagList, fromDescription) ==
  SponsorshipInfo(desc, tagList, fromDescription,
                  TagLoop(tagList, fromDescription),
                  IF TruthyStr(desc) THEN adTimestampRegex(desc.v) ELSE NoMatch)

detectSponsorship(desc, tagArg) ==
  AfterDescription(desc, IF tagArg.t = "array" THEN tagArg.v ELSE <<>>,
                   DescriptionKeywords(desc))

(***************************************************************************)
(* Real numbers.  The scores of the engine are JavaScript doubles computed  *)
(* by +, -, * and /; they are modelled as exact fractions in lowest terms.  *)
(***************************************************************************)
RECURSIVE GCD(_, _)
GCD(a, b) == IF b = 0 THEN a ELSE GCD(b, a % b)

Abs(a) == IF a < 0 THEN 0 - a ELSE a

\* the fraction n / d, d # 0, in lowest terms with a positive denominator
Rat(n, d) ==
  LET g == GCD(Abs(n), Abs(d))
      s == IF d < 0 THEN 0 - 1 ELSE 1
  IN  [n |-> (s * n) \div g, d |-> (s * d) \div g]

R(k) == [n |-> k, d |-> 1]
RAdd(a, b) == Rat(a.n * b.d + b.n * a.d, a.d * b.d)
RSub(a, b) == Rat(a.n * b.d - b.n * a.d, a.d * b.d)
RMul(a, b) == Rat(a.n * b.n, a.d * b.d)
RDiv(a, b) == Rat(a.n * b.d, a.d * b.n)
RLess(a, b) == a.n * b.d < b.n * a.d
RMin(a, b) == IF RLess(b, a) THEN b ELSE a
RMax(a, b) == IF RLess(a, b) THEN b ELSE a

(***************************************************************************)
(* The numbers of the program are IEEE 754 binary64 values.  A non-negative *)
(* one is written [e, m]: m is its significand, BinaryDigits bits, the most *)
(* significant first, and its value is m * 2^(e - BinaryDigits + 1); zero   *)
(* has no bits.  Every operation rounds to nearest, ties to even.           *)
(***************************************************************************)
BinaryDigits == 53

DZero == [e |-> 0, m |-> <<>>]

Zeros(n) == [i \in 1..n |-> 0]

Last(b) == IF b = <<>> THEN 0 ELSE b[Len(b)]

Front(b) == IF b = <<>> THEN <<>> ELSE SubSeq(b, 1, Len(b) - 1)

\* the bits of the natural number n, none for 0
RECURSIVE NatBits(_)
NatBits(n) == IF n = 0 THEN <<>> ELSE Append(NatBits(n \div 2), n % 2)

\* the bits of b + 1
RECURSIVE Increment(_)
Increment(b) ==
  IF b = <<>> THEN <<1>>
  ELSE IF Last(b) = 0 THEN Append(Front(b), 1)
  ELSE Append(Increment(Front(b)), 0)

\* the bits of a + b + carry
RECURSIVE AddBits(_, _, _)
AddBits(a, b, carry) ==
  IF (a = <<>> /\ b = <<>>) \/ carry < 0 THEN NatBits(carry)
  ELSE Append(AddBits(Front(a), Front(b), (Last(a) + Last(b) + carry) \div 2),
              (Last(a) + Last(b) + carry) % 2)

\* the bits of b * k + carry
RECURSIVE TimesBits(_, _, _)
TimesBits(b, k, carry) ==
  IF b = <<>> \/ carry < 0 THEN NatBits(carry)
  ELSE Append(TimesBits(Front(b), k, (Last(b) * k + carry) \div 2),
              (Last(b) * k + carry) % 2)

\* a significand that has grown by one bit on rounding up loses its last
Carried(m, e) ==
  IF Len(m) > BinaryDigits THEN [e |-> e + 1, m |-> Front(m)]
  ELSE [e |-> e, m |-> m]

RoundKept(kept, guard, sticky, e) ==
  IF guard = 1 /\ (sticky \/ Last(kept) = 1)
  THEN Carried(Increment(kept), e)
  ELSE [e |-> e, m |-> kept]

\* the binary64 nearest to b * 2^s, b a bit string that starts with 1
RoundBits(b, s) ==
  IF Len(b) <= BinaryDigits
  THEN [e |-> s + Len(b) - 1, m |-> b \o Zeros(BinaryDigits - Len(b))]
  ELSE RoundKept(SubSeq(b, 1, BinaryDigits), b[BinaryDigits + 1],
                 \E i \in (BinaryDigits + 2)..Len(b) : b[i] = 1,
                 s + Len(b) - 1)

\* k further bits of the quotient r / n, r < n, and one bit that tells
\* whether anything is left
RECURSIVE QuotientBits(_, _, _)
QuotientBits(r, n, k) ==
  IF k = 0 THEN <<IF r = 0 THEN 0 ELSE 1>>
  ELSE IF 2 * r >= n THEN <<1>> \o QuotientBits(2 * r - n, n, k - 1)
  ELSE <<0>> \o QuotientBits(2 * r, n, k - 1)

\* (c / n) * 2^s, c and n positive integers
RECURSIVE DivFrom(_, _, _)
DivFrom(c, n, s) ==
  IF c < n THEN DivFrom(2 * c, n, s - 1)
  ELSE IF c >= 2 * n THEN DivFrom(c, 2 * n, s + 1)
  ELSE RoundBits(<<1>> \o QuotientBits(c - n, n, BinaryDigits),
                 s - BinaryDigits - 1)

\* the natural number n as a binary64
DNat(n) == IF n = 0 THEN DZero ELSE RoundBits(NatBits(n), 0)

\* c / n of two natural numbers, n > 0
DDiv(c, n) == IF c = 0 THEN DZero ELSE DivFrom(c, n, 0)

\* x * k, k a positive integer
DTimes(x, k) ==
  IF x.m = <<>> THEN DZero
  ELSE RoundBits(TimesBits(x.m, k, 0), x.e - BinaryDigits + 1)

DAddOrdered(x, y) ==
  RoundBits(AddBits(x.m \o Zeros(x.e - y.e), y.m, 0), y.e - BinaryDigits + 1)

\* x + y
DAdd(x, y) ==
  IF x.m = <<>> THEN y
  ELSE IF y.m = <<>> THEN x
  ELSE IF x.e >= y.e THEN DAddOrdered(x, y) ELSE DAddOrdered(y, x)

(***************************************************************************)
(* calculateEngagementMetrics                                               *)
(***************************************************************************)
\* the guard as a test for zero only: a negative viewCount is divided by
calculateEngagementMetrics_NonZeroGuard(viewCount, likeCount, commentCount) ==
  IF viewCount # 0
  THEN LET likeToViewRatio == RMul(Rat(likeCount, viewCount), R(100))
           commentToViewRatio == RMul(Rat(commentCount, viewCount), R(100))
       IN  [likeToViewRatio |-> likeToViewRatio,
            commentToViewRatio |-> commentToViewRatio,
            overallEngagementRate |->
              RMul(Rat(likeCount + commentCount, viewCount), R(100)),
            adEffectivenessScore |->
              RAdd(RMul(likeToViewRatio, Rat(7, 10)),
                   RMul(commentToViewRatio, Rat(3, 10)))]
  ELSE [likeToViewRatio |-> R(0), commentToViewRatio |-> R(0),
        overallEngagementRate |-> R(0), adEffectivenessScore |-> R(0)]

\* the two weights of adEffectivenessScore exchanged
calculateEngagementMetrics_Weights(viewCount, likeCount, commentCount) ==
  IF viewCount > 0
  THEN LET likeToViewRatio == RMul(Rat(likeCount, viewCount), R(100))
           commentToViewRatio == RMul(Rat(commentCount, viewCount), R(100))
       IN  [likeToViewRatio |-> likeToViewRatio,
            commentToViewRatio |-> commentToViewRatio,
            overallEngagementRate |->
              RMul(Rat(likeCount + commentCount, viewCount), R(100)),
            adEffectivenessScore |->
              RAdd(RMul(likeToViewRatio, Rat(3, 10)),
                   RMul(commentToViewRatio, Rat(7, 10)))]
  ELSE [likeToViewRatio |-> R(0), commentToViewRatio |-> R(0),
        overallEngagementRate |-> R(0), adEffectivenessScore |-> R(0)]

calculateEngagementMetrics(viewCount, likeCount, commentCount) ==
  IF viewCount > 0
  THEN LET likeToViewRatio == RMul(Rat(likeCount, viewCount), R(100))
           commentToViewRatio == RMul(Rat(commentCount, viewCount), R(100))
       IN  [likeToViewRatio |-> likeToViewRatio,
            commentToViewRatio |-> commentToViewRatio,
            overallEngagementRate |->
              RMul(Rat(likeCount + commentCount, viewCount), R(100)),
            adEffectivenessScore |->
              RAdd(RMul(likeToViewRatio, Rat(7, 10)),
                   RMul(commentToViewRatio, Rat(3, 10)))]
  ELSE [likeToViewRatio |-> R(0), commentToViewRatio |-> R(0),
        overallEngagementRate |-> R(0), adEffectivenessScore |-> R(0)]

(***************************************************************************)
(* analyzeCommentSentiment                                                  *)
(***************************************************************************)
adKeywords == << <<"a","d">>, <<"s","p","o","n","s","o","r">>, <<"p","r","o","m","o","t","i","o","n">>, <<"s","p","o","n","s","o","r","e","d">>,
                 <<"b","r","a","n","d">>, <<"p","r","o","d","u","c","t">> >>

\* sentiment.getSentiment(tokenizer.tokenize(text)) of the natural library: the
\* mean AFINN weight of the words (great 3, bad -3), NaN when there is no word
getSentiment(text) ==
  IF text = <<"g","r","e","a","t"," ","a","d">> THEN [nan |-> FALSE, q |-> Rat(3, 2)]
  ELSE IF text = <<"b","a","d"," ","s","p","o","n","s","o","r">> THEN [nan |-> FALSE, q |-> Rat(0 - 3, 2)]
  ELSE IF text = <<>> THEN [nan |-> TRUE, q |-> R(0)]
  ELSE [nan |-> FALSE, q |-> R(0)]

\* sentiment.getSentiment(tokens) || 0
SentimentScore(comment) ==
  LET s == getSentiment(comment.text) IN IF s.nan THEN R(0) ELSE s.q

RECURSIVE SumScores(_)
SumScores(cs) ==
  IF cs = <<>> THEN R(0) ELSE RAdd(SentimentScore(Head(cs)), SumScores(Tail(cs)))

\* the summary returned for an empty or absent comment list
EmptySentiment ==
  [averageSentiment |-> R(0), positivePercentage |-> R(0),
   negativePercentage |-> R(0), neutralPercentage |-> R(0),
   totalComments |-> 0, keywordSentiment |-> <<>>]

analyzeCommentSentiment(comments) ==
  IF comments = <<>> THEN EmptySentiment
  ELSE
    LET totalComments == Len(comments)
        positive == {i \in DOMAIN comments :
                       RLess(Rat(1, 20), SentimentScore(comments[i]))}
        negative == {i \in DOMAIN comments :
                       RLess(SentimentScore(comments[i]), Rat(0 - 1, 20))}
        neutral == DOMAIN comments \ (positive \cup negative)
        Mentions(k) == {i \in DOMAIN comments :
                          includes(toLowerCase(comments[i].text), adKeywords[k])}
        mentioned == SelectIdx(adKeywords,
                               {k \in DOMAIN adKeywords : Mentions(k) # {}}, 1)
        Total(k) == SumScores(SelectIdx(comments, Mentions(k), 1))
        Entry(k) == [count |-> Cardinality(Mentions(k)),
                     totalSentiment |-> Total(k),
                     averageSentiment |->
                       RDiv(Total(k), R(Cardinality(Mentions(k))))]
        Percentage(S) == RMul(Rat(Cardinality(S), totalComments), R(100))
    IN  [averageSentiment |-> RDiv(SumScores(comments), R(totalComments)),
         positivePercentage |-> Percentage(positive),
         negativePercentage |-> Percentage(negative),
         neutralPercentage |-> Percentage(neutral),
         totalComments |-> totalComments,
         keywordSentiment |->
           [w \in Range(mentioned) |->
              Entry(CHOOSE k \in DOMAIN adKeywords : adKeywords[k] = w)]]

\* the three counters of the loop over the comments
ZeroCounters == [positiveCount |-> 0, negativeCount |-> 0, neutralCount |-> 0]

\* the classification with two independent tests and no else
CountStep_Independent(counters, sentimentScore) ==
  [positiveCount |-> counters.positiveCount
                       + IF RLess(Rat(1, 20), sentimentScore) THEN 1 ELSE 0,
   negativeCount |-> counters.negativeCount
                       + IF RLess(sentimentScore, Rat(0 - 1, 20)) THEN 1 ELSE 0,
   neutralCount |-> counters.neutralCount
                      + IF RLess(sentimentScore, Rat(0 - 1, 20)) THEN 0 ELSE 1]

\* if (score > 0.05) positiveCount++ else if (score < -0.05) negativeCount++
\* else neutralCount++
CountStep(counters, sentimentScore) ==
  IF RLess(Rat(1, 20), sentimentScore)
  THEN [counters EXCEPT !.positiveCount = @ + 1]
  ELSE IF RLess(sentimentScore, Rat(0 - 1, 20))
  THEN [counters EXCEPT !.negativeCount = @ + 1]
  ELSE [counters EXCEPT !.neutralCount = @ + 1]

RECURSIVE CountLoop(_, _)
CountLoop(comments, counters) ==
  IF comments = <<>> THEN counters
  ELSE CountLoop(Tail(comments),
                 CountStep(counters, SentimentScore(Head(comments))))

\* ((count / totalComments) * 100) || 0 as the binary64 the program computes
PercentageOf(count, totalComments) == DTimes(DDiv(count, totalComments), 100)

PercentagesOf(counters, totalComments) ==
  [positivePercentage |-> PercentageOf(counters.positiveCount, totalComments),
   negativePercentage |-> PercentageOf(counters.negativeCount, totalComments),
   neutralPercentage |-> PercentageOf(counters.neutralCount, totalComments)]

\* the three percentages analyzeCommentSentiment returns, as binary64 values
SentimentPercentages(comments) ==
  IF comments = <<>>
  THEN [positivePercentage |-> DZero, negativePercentage |-> DZero,
        neutralPercentage |-> DZero]
  ELSE PercentagesOf(CountLoop(comments, ZeroCounters), Len(comments))

(***************************************************************************)
(* calculateAdEffectiveness                                                 *)
(***************************************************************************)
\* the engagement term without its cap at 100
calculateAdEffectiveness_NoCap(engagementMetrics, sentiment) ==
  LET normalizedEngagement ==
        RMul(engagementMetrics.adEffectivenessScore, R(10))
      sentimentScore ==
        RDiv(RAdd(RSub(sentiment.positivePercentage,
                       sentiment.negativePercentage), R(100)), R(2))
      effectivenessScore ==
        RAdd(RMul(normalizedEngagement, Rat(1, 2)),
             RMul(sentimentScore, Rat(1, 2)))
  IN  effectivenessScore

calculateAdEffectiveness(engagementMetrics, sentiment) ==
  LET normalizedEngagement ==
        RMin(RMul(engagementMetrics.adEffectivenessScore, R(10)), R(100))
      sentimentScore ==
        RDiv(RAdd(RSub(sentiment.positivePercentage,
                       sentiment.negativePercentage), R(100)), R(2))
      effectivenessScore ==
        RAdd(RMul(normalizedEngagement, Rat(1, 2)),
             RMul(sentimentScore, Rat(1, 2)))
  IN  RMax(R(0), RMin(R(100), effectivenessScore))

(***************************************************************************)
(* The collaborators' answers.                                              *)
(***************************************************************************)
VideoIds == {"v1", "v2", "v3"}
RunIds == {1, 2, 3}
ChannelIds == {"UC1", "UC2"}

\* the largest number of comments the comment source returns
MaxComments == 2

Item(title, desc, tagArg, views, likes, commentCount) ==
  [kind |-> "items",
   snippet |-> [title |-> title, description |-> desc, tags |-> tagArg,
                channelId |-> "UC1", channelTitle |-> "Channel One",
                publishedAt |-> "2024-01-01"],
   statistics |-> [viewCount |-> views, likeCount |-> likes,
                   commentCount |-> commentCount]]

\* what youtube.videos.list answers: it throws, it finds nothing, or a video
VideoResponses == {
  [kind |-> "throws"],
  [kind |-> "empty"],
  Item("plain", Str(<<"N","i","c","e"," ","v","i","d","e","o","."," ">>), NoArr,
       Str(<<"1","0","0","0">>), Str(<<"5","0">>), Str(<<"1","0">>)),
  Item("tagged", Str(<<"N","i","c","e"," ","v","i","d","e","o","."," ">>), Arr(<< <<"N","i","k","e">> >>),
       Str(<<"0">>), Str(<<"5">>), Str(<<"2">>)),
  Item("keyword", Str(<<"S","p","o","n","s","o","r","e","d"," ","b","y"," ","N","o","r","d","."," ">>), Arr(<<>>),
       Str(<<"1","0","0","0">>), Undefined, Str(<<"1","0">>)),
  Item("long", Str(<<"1",":","3","0"," ","-"," ","5",":","0","0"," ","A","d","."," ">>), Arr(<<>>),
       Str(<<"1","0","0","0">>), Str(<<"5","0">>), Str(<<"1","0">>)),
  Item("short", Str(<<"1",":","3","0"," ","-"," ","2",":","0","0"," ","a","d","."," ">>), Arr(<<>>),
       Str(<<"1","0","0","0">>), Str(<<"5","0">>), Str(<<"1","0">>)),
  Item("zero", Str(<<"1",":","3","0"," ","-"," ","1",":","3","0"," ","A","d","."," ">>), Arr(<<>>),
       Str(<<"1","0","0","0">>), Str(<<"5","0">>), Str(<<"1","0">>)),
  Item("backwards", Str(<<"5",":","0","0"," ","-"," ","1",":","3","0"," ","A","d","."," ">>), Arr(<<>>),
       Str(<<"1","0","0","0">>), Str(<<"5","0">>), Str(<<"1","0">>)),
  Item("open", Str(<<"5",":","0","0"," ","-"," ","1",":"," ","A","d","."," ">>), Arr(<<>>),
       Str(<<"1","0","0","0">>), Str(<<"5","0">>), Str(<<"1","0">>)),
  Item("bare", Undefined, NoArr,
       Str(<<"1","0","0","0">>), Str(<<"5","0">>), Str(<<"1","0">>)) }

\* the texts of the comments the comment source returns
CommentTexts == { <<"g","r","e","a","t"," ","a","d">>, <<"b","a","d"," ","s","p","o","n","s","o","r">>, <<>> }

\* what youtube.commentThreads.list answers: it throws, or a list of comments
CommentResponses ==
  {[kind |-> "throws"]} \cup
  {[kind |-> "items", items |-> c] : c \in SeqsUpTo(CommentTexts, MaxComments)}

\* what model.generateContent answers: it throws, or a reply
GenerativeResponses == {
  [kind |-> "throws"],
  [kind |-> "reply", text |-> <<"A"," ","L","o","n","g","-","f","o","r","m"," ","r","e","a","d","."," ">>],
  [kind |-> "reply", text |-> <<"S","h","o","r","t","-","F","o","r","m"," ","C","T","A">>],
  [kind |-> "reply", text |-> <<"s","h","o","r","t","-","f","o","r","m",","," ","n","o","t"," ","l","o","n","g","-","f","o","r","m">>],
  [kind |-> "reply", text |-> <<"N","o"," ","c","l","e","a","r"," ","s","t","y","l","e">>] }

NoGen == [kind |-> "none"]

(***************************************************************************)
(* getVideoDetails and getVideoComments                                     *)
(***************************************************************************)
NullVideo == [null |-> TRUE]

\* adInsights before any analysis: each of its five fields is null
NullInsights ==
  [null |-> {"lastAnalyzed", "sentiment", "aiAnalysis", "adStyle",
             "adEffectiveness"}]

\* parseInt(x) || 0 on a statistic, which may be missing
ParseCount(x) ==
  LET n == IF x.t = "string" THEN parseInt(x.v) ELSE NaN
  IN  IF TruthyNum(n) THEN n.v ELSE 0

getVideoDetails(resp) ==
  IF resp.kind # "items" THEN NullVideo
  ELSE LET viewCount == ParseCount(resp.statistics.viewCount)
           likeCount == ParseCount(resp.statistics.likeCount)
           commentCount == ParseCount(resp.statistics.commentCount)
       IN  [title |-> resp.snippet.title,
            description |-> resp.snippet.description,
            viewCount |-> viewCount,
            likeCount |-> likeCount,
            commentCount |-> commentCount,
            tags |-> IF resp.snippet.tags.t = "array"
                     THEN resp.snippet.tags ELSE Arr(<<>>),
            engagementMetrics |->
              calculateEngagementMetrics(viewCount, likeCount, commentCount),
            sponsorshipInfo |->
              detectSponsorship(resp.snippet.description, resp.snippet.tags),
            adInsights |-> NullInsights]

getVideoComments(resp) ==
  IF resp.kind # "items" THEN <<>>
  ELSE [i \in DOMAIN resp.items |-> [text |-> resp.items[i]]]

(***************************************************************************)
(* analyzeVideoContent                                                      *)
(***************************************************************************)
AnalysisFailedText == <<"A","n","a","l","y","s","i","s"," ","f","a","i","l","e","d">>

\* building the prompt throws a TypeError, inside the try block, when
\* videoData is null or its description is not a string
PromptThrows(videoData) ==
  \/ videoData = NullVideo
  \/ videoData.description.t # "string"

\* the ad style resolved without looking at hasSponsorship
AdStyle_NoSponsorshipCheck(sponsorshipInfo, aiInsights) ==
  IF TruthyNum(sponsorshipInfo.adDuration)
  THEN IF sponsorshipInfo.adDuration.v > 60 THEN "Long-form" ELSE "Short-form"
  ELSE IF includes(toLowerCase(aiInsights), <<"l","o","n","g","-","f","o","r","m">>) THEN "Long-form"
  ELSE IF includes(toLowerCase(aiInsights), <<"s","h","o","r","t","-","f","o","r","m">>) THEN "Short-form"
  ELSE "Unknown"

\* the ad style with the reply tested for "short-form" first
AdStyle_ShortFirst(sponsorshipInfo, aiInsights) ==
  IF sponsorshipInfo.hasSponsorship
  THEN IF TruthyNum(sponsorshipInfo.adDuration)
       THEN IF sponsorshipInfo.adDuration.v > 60
            THEN "Long-form" ELSE "Short-form"
       ELSE IF includes(toLowerCase(aiInsights), <<"s","h","o","r","t","-","f","o","r","m">>)
            THEN "Short-form"
       ELSE IF includes(toLowerCase(aiInsights), <<"l","o","n","g","-","f","o","r","m">>)
            THEN "Long-form"
       ELSE "Unknown"
  ELSE "Unknown"

\* the ad style: from the duration when it is truthy, else from the reply
AdStyle(sponsorshipInfo, aiInsights) ==
  IF sponsorshipInfo.hasSponsorship
  THEN IF TruthyNum(sponsorshipInfo.adDuration)
       THEN IF sponsorshipInfo.adDuration.v > 60
            THEN "Long-form" ELSE "Short-form"
       ELSE IF includes(toLowerCase(aiInsights), <<"l","o","n","g","-","f","o","r","m">>)
            THEN "Long-form"
       ELSE IF includes(toLowerCase(aiInsights), <<"s","h","o","r","t","-","f","o","r","m">>)
            THEN "Short-form"
       ELSE "Unknown"
  ELSE "Unknown"

\* what the catch block returns
AnalysisFailed(now) ==
  [aiInsights |-> AnalysisFailedText,
   adStyle |-> "Unknown",
   adEffectiveness |-> R(0),
   adSentiment |-> [averageSentiment |-> R(0), positivePercentage |-> R(0),
                    negativePercentage |-> R(0), neutralPercentage |-> R(0)],
   lastAnalyzed |-> now]

NoAnalysis == [none |-> TRUE]

\* analyzeVideoContent without its catch block: the failure is rethrown
analyzeVideoContent_NoCatch(videoData, comments, genResp, now) ==
  IF PromptThrows(videoData) \/ genResp.kind # "reply"
  THEN [threw |-> TRUE, message |-> "generateContent failed",
        value |-> NoAnalysis]
  ELSE LET aiInsights == trim(genResp.text)
           commentSentiment == analyzeCommentSentiment(comments)
       IN  [threw |-> FALSE, message |-> "",
            value |->
              [aiInsights |-> aiInsights,
               adStyle |-> AdStyle(videoData.sponsorshipInfo, aiInsights),
               adEffectiveness |->
                 calculateAdEffectiveness(videoData.engagementMetrics,
                                          commentSentiment),
               adSentiment |-> commentSentiment,
               lastAnalyzed |-> now]]

\* analyzeVideoContent, given what model.generateContent answered (NoGen when
\* the prompt could not be built and the call was never made).  It returns
\* [threw, message, value]; the code catches every failure, so threw is FALSE.
analyzeVideoContent(videoData, comments, genResp, now) ==
  IF PromptThrows(videoData) \/ genResp.kind # "reply"
  THEN [threw |-> FALSE, message |-> "", value |-> AnalysisFailed(now)]
  ELSE LET aiInsights == trim(genResp.text)
           commentSentiment == analyzeCommentSentiment(comments)
       IN  [threw |-> FALSE, message |-> "",
            value |->
              [aiInsights |-> aiInsights,
               adStyle |-> AdStyle(videoData.sponsorshipInfo, aiInsights),
               adEffectiveness |->
                 calculateAdEffectiveness(videoData.engagementMetrics,
                                          commentSentiment),
               adSentiment |-> commentSentiment,
               lastAnalyzed |-> now]]

(***************************************************************************)
(* generateAdInsightsReport and saveAdInsightsReport                        *)
(***************************************************************************)
NoReport == [none |-> TRUE]
NoResult == [none |-> TRUE]
NoDoc == [none |-> TRUE]

\* a run of generateAdInsightsReport.  pc is the await it is suspended at;
\* video, commentSource, gen and saved record what each collaborator
\* answered; calls lists the collaborator calls the run has made.
IdleRun ==
  [pc |-> "idle", videoId |-> "none", video |-> "none",
   commentSource |-> "none", gen |-> "none", saved |-> "none", savedAt |-> 0,
   videoData |-> NullVideo, comments |-> <<>>, analysis |-> NoAnalysis,
   report |-> NoReport, result |-> NoResult, calls |-> <<>>]

\* videoData.name, undefined when getVideoDetails sets no such property
Property(videoData, name) ==
  IF name \in DOMAIN videoData THEN videoData[name] ELSE "undefined"

\* the report object literal
Report(videoId, videoData, analysisResults, now) ==
  [videoId |-> videoId,
   title |-> videoData.title,
   channelId |-> Property(videoData, "channelId"),
   channelTitle |-> Property(videoData, "channelTitle"),
   publishedAt |-> Property(videoData, "publishedAt"),
   viewCount |-> videoData.viewCount,
   adData |-> videoData.sponsorshipInfo,
   engagement |->
     [likeCount |-> videoData.likeCount,
      commentCount |-> videoData.commentCount,
      likeToViewRatio |-> videoData.engagementMetrics.likeToViewRatio,
      commentToViewRatio |-> videoData.engagementMetrics.commentToViewRatio,
      overallEngagementRate |->
        videoData.engagementMetrics.overallEngagementRate],
   sentimentAnalysis |-> analysisResults.adSentiment,
   adStyle |-> analysisResults.adStyle,
   adEffectiveness |-> analysisResults.adEffectiveness,
   aiInsights |-> analysisResults.aiInsights,
   generatedAt |-> now]

\* the test that ends the run with 'Video not found', left out
VideoMissing_Never(videoData) == FALSE

\* if (!videoData)
VideoMissing(videoData) == videoData = NullVideo

\* the run telling a failed call of the video source from an absent video
AfterVideoDetails_TellsFailure(state, videoData) ==
  IF VideoMissing(videoData)
  THEN [state EXCEPT !.pc = "done",
                     !.result = [success |-> FALSE,
                                 error |-> IF state.video = "throws"
                                           THEN "Video source failed"
                                           ELSE "Video not found"]]
  ELSE [state EXCEPT !.pc = "comments", !.videoData = videoData,
                     !.calls = Append(@, "commentThreads.list")]

\* generateAdInsightsReport from the answer of getVideoDetails up to the call
\* of youtube.commentThreads.list
AfterVideoDetails(state, videoData) ==
  IF VideoMissing(videoData)
  THEN [state EXCEPT !.pc = "done",
                     !.result = [success |-> FALSE,
                                 error |-> "Video not found"]]
  ELSE [state EXCEPT !.pc = "comments", !.videoData = videoData,
                     !.calls = Append(@, "commentThreads.list")]

\* generateAdInsightsReport from the answer of the generative call (NoGen
\* when it was not made) up to the call of Video.findOneAndUpdate
Compose(state, genResp, now) ==
  LET a == analyzeVideoContent(state.videoData, state.comments, genResp, now)
  IN  IF a.threw
      THEN [state EXCEPT !.pc = "done",
                         !.result = [success |-> FALSE, error |-> a.message]]
      ELSE IF state.videoData = NullVideo
      THEN [state EXCEPT !.pc = "done",
                         !.result = [success |-> FALSE,
                                     error |-> "Cannot read properties of null"]]
      ELSE [state EXCEPT
              !.pc = "save",
              !.analysis = a.value,
              !.report = Report(state.videoId, state.videoData, a.value, now),
              !.calls = Append(@, "findOneAndUpdate")]

\* a write field by field that leaves the sentiment of an analysed document
\* as it is
saveAdInsightsReport_KeepsSentiment(db, videoId, report) ==
  IF db[videoId] = NoDoc THEN db
  ELSE [db EXCEPT ![videoId] =
          [@ EXCEPT !.adInsights =
             [lastAnalyzed |-> report.generatedAt,
              sentiment |-> IF @ = NullInsights
                            THEN report.sentimentAnalysis ELSE @.sentiment,
              aiAnalysis |-> report.aiInsights,
              adStyle |-> report.adStyle,
              adEffectiveness |-> report.adEffectiveness]]]

\* Video.findOneAndUpdate({videoId}, {$set: {adInsights}}, {new: true}): the
\* document of that videoId is updated when there is one
saveAdInsightsReport(db, videoId, report) ==
  IF db[videoId] = NoDoc THEN db
  ELSE [db EXCEPT ![videoId] =
          [@ EXCEPT !.adInsights =
             [lastAnalyzed |-> report.generatedAt,
              sentiment |-> report.sentimentAnalysis,
              aiAnalysis |-> report.aiInsights,
              adStyle |-> report.adStyle,
              adEffectiveness |-> report.adEffectiveness]]]

\* a caller calls generateAdInsightsReport(videoId): youtube.videos.list is
\* called and awaited
StartReport(r, videoId) ==
  /\ run[r].pc = "idle"
  /\ run' = [run EXCEPT ![r] = [IdleRun EXCEPT !.pc = "fetch",
                                               !.videoId = videoId,
                                               !.calls = <<"videos.list">>]]
  /\ UNCHANGED <<ts, tsOut, description, tags, info, store, clock, batch, counts, metrics, pureCalls, web>>

\* youtube.videos.list answers
VideoSourceResponds(r, resp) ==
  /\ run[r].pc = "fetch"
  /\ run' = [run EXCEPT ![r] =
               AfterVideoDetails([@ EXCEPT !.video = resp.kind],
                                 getVideoDetails(resp))]
  /\ clock' = clock + 1
  /\ UNCHANGED <<ts, tsOut, description, tags, info, store, batch, counts, metrics, pureCalls, web>>

\* youtube.commentThreads.list answers: analyzeVideoContent builds its prompt
\* and calls model.generateContent, or fails before the call
CommentSourceResponds(r, resp) ==
  /\ run[r].pc = "comments"
  /\ LET state == [run[r] EXCEPT !.commentSource = resp.kind,
                                 !.comments = getVideoComments(resp)]
     IN  run' = [run EXCEPT ![r] =
                   IF PromptThrows(state.videoData)
                   THEN Compose(state, NoGen, clock + 1)
                   ELSE [state EXCEPT !.pc = "generate",
                                      !.calls = Append(@, "generateContent")]]
  /\ clock' = clock + 1
  /\ UNCHANGED <<ts, tsOut, description, tags, info, store, batch, counts, metrics, pureCalls, web>>

\* model.generateContent answers
GenerativeResponds(r, resp) ==
  /\ run[r].pc = "generate"
  /\ run' = [run EXCEPT ![r] =
               Compose([@ EXCEPT !.gen = resp.kind], resp, clock + 1)]
  /\ clock' = clock + 1
  /\ UNCHANGED <<ts, tsOut, description, tags, info, store, batch, counts, metrics, pureCalls, web>>

\* saveAdInsightsReport without its catch block: a failed write reaches the
\* catch block of generateAdInsightsReport
StoreResponds_NoCatch(r, ok) ==
  /\ run[r].pc = "save"
  /\ run' = [run EXCEPT ![r] =
               [@ EXCEPT !.pc = "done",
                         !.saved = IF ok THEN "ok" ELSE "throws",
                         !.savedAt = clock + 1,
                         !.result = IF ok
                                    THEN [success |-> TRUE,
                                          report |-> run[r].report]
                                    ELSE [success |-> FALSE,
                                          error |-> "write failed"]]]
  /\ store' = IF ok
              THEN saveAdInsightsReport(store, run[r].videoId, run[r].report)
              ELSE store
  /\ clock' = clock + 1
  /\ UNCHANGED <<ts, tsOut, description, tags, info, batch, counts, metrics, pureCalls, web>>

\* Video.findOneAndUpdate answers or throws; either way the run returns
\* {success: true, report}
StoreResponds(r, ok) ==
  /\ run[r].pc = "save"
  /\ run' = [run EXCEPT ![r] =
               [@ EXCEPT !.pc = "done",
                         !.saved = IF ok THEN "ok" ELSE "throws",
                         !.savedAt = clock + 1,
                         !.result = [success |-> TRUE,
                                     report |-> run[r].report]]]
  /\ store' = IF ok
              THEN saveAdInsightsReport(store, run[r].videoId, run[r].report)
              ELSE store
  /\ clock' = clock + 1
  /\ UNCHANGED <<ts, tsOut, description, tags, info, batch, counts, metrics, pureCalls, web>>

\* a stored video before any analysis
FreshDoc(videoId) ==
  [videoId |-> videoId, title |-> <<"title of", videoId>>,
   channelId |-> "UC1", adInsights |-> NullInsights]

StoreInputs ==
  {db \in [VideoIds -> {NoDoc} \cup {FreshDoc(v) : v \in VideoIds}] :
     \A v \in VideoIds : db[v] = NoDoc \/ db[v].videoId = v}

(***************************************************************************)
(* generateChannelAdInsights                                                *)
(***************************************************************************)
\* the call of generateChannelAdInsights.  pc is the await it is suspended
\* at; videos is what Video.find answered; next is the position in videos of
\* the video of the current iteration; started lists the videoIds passed to
\* generateAdInsightsReport, in order.
IdleBatch ==
  [pc |-> "idle", channelId |-> "none", videos |-> <<>>, next |-> 0,
   results |-> [total |-> 0, processed |-> 0, failed |-> 0, reports |-> <<>>],
   started |-> <<>>, result |-> NoResult]

\* the orderings of the elements of S
Orderings(S) ==
  {s \in SeqsUpTo(S, Cardinality(S)) :
     Len(s) = Cardinality(S) /\ Range(s) = S}

\* what Video.find({channelId}) answers: it throws, or the stored documents
\* of the channel in the order of the store, named here by their videoIds
FindResponses(db, channelId) ==
  {[kind |-> "throws"]} \cup
  {[kind |-> "docs", ids |-> o] :
     o \in Orderings({v \in VideoIds :
                       db[v] # NoDoc /\ db[v].channelId = channelId})}

\* the documents an answer of Video.find holds
DocsOf(db, resp) == [i \in DOMAIN resp.ids |-> db[resp.ids[i]]]

\* the run record when generateAdInsightsReport(videoId) has called
\* youtube.videos.list and awaits it
StartedRun(videoId) ==
  [IdleRun EXCEPT !.pc = "fetch", !.videoId = videoId,
                  !.calls = <<"videos.list">>]

\* one iteration of the loop, from the outcome of generateAdInsightsReport:
\* a result, or an exception [threw, message]
CollectUncounted(results, video, outcome) ==
  IF "threw" \in DOMAIN outcome
  THEN [results EXCEPT
          !.reports = Append(@, [videoId |-> video.videoId,
                                 title |-> video.title, success |-> FALSE,
                                 error |-> outcome.message])]
  ELSE IF outcome.success
  THEN [results EXCEPT
          !.processed = @ + 1,
          !.reports = Append(@, [videoId |-> video.videoId,
                                 title |-> video.title, success |-> TRUE])]
  ELSE [results EXCEPT
          !.reports = Append(@, [videoId |-> video.videoId,
                                 title |-> video.title, success |-> FALSE,
                                 error |-> outcome.error])]

Collect(results, video, outcome) ==
  IF "threw" \in DOMAIN outcome
  THEN [results EXCEPT
          !.failed = @ + 1,
          !.reports = Append(@, [videoId |-> video.videoId,
                                 title |-> video.title, success |-> FALSE,
                                 error |-> outcome.message])]
  ELSE IF outcome.success
  THEN [results EXCEPT
          !.processed = @ + 1,
          !.reports = Append(@, [videoId |-> video.videoId,
                                 title |-> video.title, success |-> TRUE])]
  ELSE [results EXCEPT
          !.failed = @ + 1,
          !.reports = Append(@, [videoId |-> video.videoId,
                                 title |-> video.title, success |-> FALSE,
                                 error |-> outcome.error])]

\* a caller calls generateChannelAdInsights(channelId): Video.find is called
\* and awaited
StartBatch(channelId) ==
  /\ batch.pc = "idle"
  /\ batch' = [IdleBatch EXCEPT !.pc = "find", !.channelId = channelId]
  /\ UNCHANGED <<ts, tsOut, description, tags, info, run, store, clock,
                 counts, metrics, pureCalls, web>>

\* every per-video run started at once, none awaited before the next
FindResponds_AllAtOnce(resp) ==
  /\ batch.pc = "find"
  /\ IF resp.kind = "throws"
     THEN /\ batch' = [batch EXCEPT
                         !.pc = "done",
                         !.result = [success |-> FALSE,
                                     error |-> "find failed"]]
          /\ run' = run
     ELSE IF resp.ids = <<>>
     THEN /\ batch' = [batch EXCEPT
                         !.pc = "done",
                         !.result =
                           [success |-> FALSE,
                            error |-> "No videos found for this channel"]]
          /\ run' = run
     ELSE /\ batch' = [batch EXCEPT
                         !.pc = "report",
                         !.videos = DocsOf(store, resp),
                         !.results = [@ EXCEPT !.total = Len(resp.ids)],
                         !.next = 1,
                         !.started = [i \in DOMAIN resp.ids |->
                                        resp.ids[i]]]
          /\ run' = [r \in RunIds |->
                       IF r <= Len(resp.ids)
                       THEN StartedRun(resp.ids[r]) ELSE run[r]]
  /\ UNCHANGED <<ts, tsOut, description, tags, info, store, clock, counts,
                 metrics, pureCalls, web>>

\* a failure of Video.find not caught: the exception reaches the caller
FindResponds_NoCatch(resp) ==
  /\ batch.pc = "find"
  /\ IF resp.kind = "throws"
     THEN /\ batch' = [batch EXCEPT !.pc = "threw"]
          /\ run' = run
     ELSE IF resp.ids = <<>>
     THEN /\ batch' = [batch EXCEPT
                         !.pc = "done",
                         !.result =
                           [success |-> FALSE,
                            error |-> "No videos found for this channel"]]
          /\ run' = run
     ELSE /\ batch' = [batch EXCEPT
                         !.pc = "report",
                         !.videos = DocsOf(store, resp),
                         !.results = [@ EXCEPT !.total = Len(resp.ids)],
                         !.next = 1,
                         !.started = <<resp.ids[1]>>]
          /\ run' = [run EXCEPT ![1] = StartedRun(resp.ids[1])]
  /\ UNCHANGED <<ts, tsOut, description, tags, info, store, clock, counts,
                 metrics, pureCalls, web>>

\* Video.find answers: the batch fails, or the loop starts and the first
\* video's generateAdInsightsReport is called and awaited
FindResponds(resp) ==
  /\ batch.pc = "find"
  /\ IF resp.kind = "throws"
     THEN /\ batch' = [batch EXCEPT
                         !.pc = "done",
                         !.result = [success |-> FALSE,
                                     error |-> "find failed"]]
          /\ run' = run
     ELSE IF resp.ids = <<>>
     THEN /\ batch' = [batch EXCEPT
                         !.pc = "done",
                         !.result =
                           [success |-> FALSE,
                            error |-> "No videos found for this channel"]]
          /\ run' = run
     ELSE /\ batch' = [batch EXCEPT
                         !.pc = "report",
                         !.videos = DocsOf(store, resp),
                         !.results = [@ EXCEPT !.total = Len(resp.ids)],
                         !.next = 1,
                         !.started = <<resp.ids[1]>>]
          /\ run' = [run EXCEPT ![1] = StartedRun(resp.ids[1])]
  /\ UNCHANGED <<ts, tsOut, description, tags, info, store, clock, counts,
                 metrics, pureCalls, web>>

\* the loop left at the first video whose run did not succeed
BatchResumes_StopOnFailure ==
  /\ batch.pc = "report"
  /\ run[batch.next].pc = "done"
  /\ LET results == Collect(batch.results, batch.videos[batch.next],
                            run[batch.next].result)
     IN  IF batch.next < Len(batch.videos) /\ run[batch.next].result.success
         THEN /\ batch' = [batch EXCEPT
                             !.results = results,
                             !.next = @ + 1,
                             !.started =
                               Append(@, batch.videos[batch.next + 1].videoId)]
              /\ run' = [run EXCEPT ![batch.next + 1] =
                           StartedRun(batch.videos[batch.next + 1].videoId)]
         ELSE /\ batch' = [batch EXCEPT
                             !.pc = "done",
                             !.results = results,
                             !.result = [success |-> TRUE,
                                         results |-> results]]
              /\ run' = run
  /\ UNCHANGED <<ts, tsOut, description, tags, info, store, clock, counts,
                 metrics, pureCalls, web>>

\* the awaited generateAdInsightsReport has returned: its outcome is
\* recorded, and the next video's run is called and awaited, or the batch
\* returns {success: true, results}
BatchResumes ==
  /\ batch.pc = "report"
  /\ run[batch.next].pc = "done"
  /\ LET results == Collect(batch.results, batch.videos[batch.next],
                            run[batch.next].result)
     IN  IF batch.next < Len(batch.videos)
         THEN /\ batch' = [batch EXCEPT
                             !.results = results,
                             !.next = @ + 1,
                             !.started =
                               Append(@, batch.videos[batch.next + 1].videoId)]
              /\ run' = [run EXCEPT ![batch.next + 1] =
                           StartedRun(batch.videos[batch.next + 1].videoId)]
         ELSE /\ batch' = [batch EXCEPT
                             !.pc = "done",
                             !.results = results,
                             !.result = [success |-> TRUE,
                                         results |-> results]]
              /\ run' = run
  /\ UNCHANGED <<ts, tsOut, description, tags, info, store, clock, counts,
                 metrics, pureCalls, web>>

\* the collaborators' answers during a batch
BatchVideoResponses ==
  {[kind |-> "throws"], [kind |-> "empty"],
   Item("keyword", Str(<<"S","p","o","n","s","o","r","e","d"," ","b","y"," ","N","o","r","d","."," ">>), Arr(<<>>),
        Str(<<"1","0","0","0">>), Str(<<"5","0">>), Str(<<"1","0">>))}

BatchCommentResponses ==
  {[kind |-> "throws"],
   [kind |-> "items", items |-> << <<"g","r","e","a","t"," ","a","d">> >>]}

BatchGenerativeResponses ==
  {[kind |-> "throws"],
   [kind |-> "reply", text |-> <<"S","h","o","r","t","-","F","o","r","m"," ","C","T","A">>]}

(***************************************************************************)
(* The values the variables of a specification that does not use them keep. *)
(***************************************************************************)
NoInfo == [pending |-> TRUE]

(***************************************************************************)
(* SpecTimestamp: convertTimestampToSeconds applied to generated inputs.    *)
(***************************************************************************)
\* the parts a generated timestamp is joined from
TsParts == { <<>>, <<"0">>, <<"1">>, <<"3","0">>, <<"0","0">>, <<"a","b","c">>, <<"1","x">>, <<"-","5">>, <<" ","7">> }

TsInputs ==
  {Undefined} \cup
  {Str(join(p, <<":">>)) : p \in SeqsUpTo(TsParts, MaxTsParts) \ {<<>>}}

ConvertTimestamp ==
  /\ tsOut = Pending
  /\ tsOut' = convertTimestampToSeconds(ts)
  /\ UNCHANGED <<ts, description, tags, info, run, store, clock, batch, counts, metrics, pureCalls, web>>

(***************************************************************************)
(* SpecDetect: detectSponsorship applied to generated descriptions and tags.*)
(***************************************************************************)
\* the fragments a generated description is concatenated from
Fragments == {
  <<"1",":","3","0"," ">>,
  <<"5",":","0","0"," ">>,
  <<"A","d","."," ">>,
  <<"T","h","a","n","k","s"," ","t","o"," ","o","u","r"," ",
    "s","p","o","n","s","o","r"," ","A","c","m","e","(R)","!"," ">>,
  <<"N","i","c","e"," ","v","i","d","e","o","."," ">>,
  <<"P","r","o","m","o"," ","c","o","d","e"," ">> }

\* the tags a generated tag list is made of
TagChoices == { <<"N","i","k","e">>, <<"S","p","o","n","s","o","r","e","d"," ","b","y">> }

DescriptionInputs ==
  {NullStr} \cup {Str(Flatten(f)) : f \in SeqsUpTo(Fragments, MaxFrags)}

TagInputs == {NoArr} \cup {Arr(t) : t \in SeqsUpTo(TagChoices, MaxTags)}

Detect ==
  /\ info = NoInfo
  /\ info' = detectSponsorship(description, tags)
  /\ UNCHANGED <<ts, tsOut, description, tags, run, store, clock, batch, counts, metrics, pureCalls, web>>

(***************************************************************************)
(* SpecEngagement: calculateEngagementMetrics applied to generated counts.  *)
(***************************************************************************)
\* the largest generated count
MaxCount == 4

NoCounts == [viewCount |-> 0, likeCount |-> 0, commentCount |-> 0]
NoMetrics == [pending |-> TRUE]

CountInputs ==
  [viewCount : (0 - 2)..MaxCount, likeCount : (0 - 1)..MaxCount,
   commentCount : (0 - 1)..MaxCount]
  \cup {[viewCount |-> 1000, likeCount |-> 50, commentCount |-> 10],
        [viewCount |-> 0, likeCount |-> 5, commentCount |-> 2]}

ComputeEngagement ==
  /\ metrics = NoMetrics
  /\ metrics' = calculateEngagementMetrics(counts.viewCount, counts.likeCount,
                                            counts.commentCount)
  /\ UNCHANGED <<ts, tsOut, description, tags, info, run, store, clock, batch,
                 counts, pureCalls, web>>

(***************************************************************************)
(* The specifications.                                                      *)
(***************************************************************************)
\* the runs of the specification of a single report run
ReportRuns == {1}

PipelineIdle ==
  /\ run = [r \in RunIds |-> IdleRun]
  /\ store = [v \in VideoIds |-> NoDoc]
  /\ clock = 0
  /\ batch = IdleBatch

EngagementIdle == counts = NoCounts /\ metrics = NoMetrics

NoSummary == [pending |-> TRUE]
NoEffIn == [pending |-> TRUE]

\* no AdInsight document, no request made
NoResponse == [none |-> TRUE]
WebIdle ==
  /\ adInsightDocs = {}
  /\ http = [post |-> NoResponse, status |-> NoResponse]
  /\ refreshLog = <<>>

PureCallsIdle ==
  /\ commentList = NoArr /\ summary = NoSummary
  /\ effIn = NoEffIn /\ effOut = Pending
  /\ detectLog = <<>>

InitTimestamp ==
  /\ ts \in TsInputs
  /\ tsOut = Pending
  /\ description = NullStr /\ tags = NoArr /\ info = NoInfo
  /\ PipelineIdle /\ EngagementIdle /\ PureCallsIdle
  /\ WebIdle

NextTimestamp == ConvertTimestamp

SpecTimestamp == InitTimestamp /\ [][NextTimestamp]_vars

InitDetect ==
  /\ description \in DescriptionInputs
  /\ tags \in TagInputs
  /\ info = NoInfo
  /\ ts = Undefined /\ tsOut = Pending
  /\ PipelineIdle /\ EngagementIdle /\ PureCallsIdle
  /\ WebIdle

NextDetect == Detect

SpecDetect == InitDetect /\ [][NextDetect]_vars

Init ==
  /\ ts = Undefined /\ tsOut = Pending
  /\ description = NullStr /\ tags = NoArr /\ info = NoInfo
  /\ run = [r \in RunIds |-> IdleRun]
  /\ store \in StoreInputs
  /\ clock = 0
  /\ batch = IdleBatch
  /\ EngagementIdle
  /\ PureCallsIdle
  /\ WebIdle

Next ==
  \E r \in ReportRuns :
    \/ \E videoId \in VideoIds : StartReport(r, videoId)
    \/ \E resp \in VideoResponses : VideoSourceResponds(r, resp)
    \/ \E resp \in CommentResponses : CommentSourceResponds(r, resp)
    \/ \E resp \in GenerativeResponses : GenerativeResponds(r, resp)
    \/ \E ok \in BOOLEAN : StoreResponds(r, ok)

Spec == Init /\ [][Next]_vars

InitEngagement ==
  /\ counts \in CountInputs
  /\ metrics = NoMetrics
  /\ ts = Undefined /\ tsOut = Pending
  /\ description = NullStr /\ tags = NoArr /\ info = NoInfo
  /\ PipelineIdle
  /\ PureCallsIdle
  /\ WebIdle

NextEngagement == ComputeEngagement

SpecEngagement == InitEngagement /\ [][NextEngagement]_vars

\* the longest generated comment list
MaxSentimentComments == 3

SentimentTexts == CommentTexts \cup { <<"o","k">> }

\* the arguments of analyzeCommentSentiment: no list, or a list of comments
SentimentInputs ==
  {NoArr} \cup
  {Arr([i \in DOMAIN c |-> [text |-> c[i]]]) :
     c \in SeqsUpTo(SentimentTexts, MaxSentimentComments)}

\* analyzeCommentSentiment(commentList) is called: the returned object with
\* its numbers as exact fractions, the counters of the loop, and the three
\* percentages as the binary64 values the program computes
ComputeSentiment ==
  /\ summary = NoSummary
  /\ summary' = [value |-> analyzeCommentSentiment(commentList.v),
                 counters |-> CountLoop(commentList.v, ZeroCounters),
                 binary64 |-> SentimentPercentages(commentList.v)]
  /\ UNCHANGED <<ts, tsOut, description, tags, info, run, store, clock, batch,
                 counts, metrics, commentList, effIn, effOut, detectLog, web>>

InitSentiment ==
  /\ commentList \in SentimentInputs
  /\ summary = NoSummary
  /\ effIn = NoEffIn /\ effOut = Pending /\ detectLog = <<>>
  /\ ts = Undefined /\ tsOut = Pending
  /\ description = NullStr /\ tags = NoArr /\ info = NoInfo
  /\ PipelineIdle /\ EngagementIdle
  /\ WebIdle

NextSentiment == ComputeSentiment

SpecSentiment == InitSentiment /\ [][NextSentiment]_vars

\* the largest generated adEffectivenessScore, above the 10 that reaches the
\* cap of the engagement term
MaxEffScore == 12

\* the arguments of calculateAdEffectiveness: a non-negative score, in halves,
\* and two percentages in [0, 100]
EffScores == {Rat(k, 2) : k \in 0..(2 * MaxEffScore)} \cup {R(1000)}

EffPercentages == {R(0), R(25), Rat(100, 3), R(50), R(100)}

EffInputs ==
  {[engagementMetrics |-> [adEffectivenessScore |-> s],
    sentiment |-> [positivePercentage |-> pos, negativePercentage |-> neg]] :
     s \in EffScores, pos \in EffPercentages, neg \in EffPercentages}

\* calculateAdEffectiveness(engagementMetrics, sentiment) is called
ComputeEffectiveness ==
  /\ effOut = Pending
  /\ effOut' = calculateAdEffectiveness(effIn.engagementMetrics,
                                        effIn.sentiment)
  /\ UNCHANGED <<ts, tsOut, description, tags, info, run, store, clock, batch,
                 counts, metrics, commentList, summary, effIn, detectLog, web>>

InitEffectiveness ==
  /\ effIn \in EffInputs
  /\ effOut = Pending
  /\ commentList = NoArr /\ summary = NoSummary /\ detectLog = <<>>
  /\ ts = Undefined /\ tsOut = Pending
  /\ description = NullStr /\ tags = NoArr /\ info = NoInfo
  /\ PipelineIdle /\ EngagementIdle
  /\ WebIdle

NextEffectiveness == ComputeEffectiveness

SpecEffectiveness == InitEffectiveness /\ [][NextEffectiveness]_vars

\* the largest number of calls of detectSponsorship in a row
MaxCalls == 3

\* the arguments of the repeated calls
CallDescriptions ==
  {NullStr,
   Str(<<"N","i","c","e"," ","v","i","d","e","o","."," ">>),
   Str(<<"T","h","a","n","k","s"," ","t","o"," ","o","u","r"," ",
         "s","p","o","n","s","o","r"," ","A","c","m","e","(R)","!"," ",
         "1",":","3","0"," ","5",":","0","0"," ","A","d","."," ">>)}

CallTags == {NoArr, Arr(<< <<"S","p","o","n","s","o","r","e","d"," ","b","y">>, <<"N","i","k","e">> >>)}

\* adIndicators, detectedBrands and hasSponsorship kept at module level and
\* not reset: a call starts from what the call before it left
DetectCall_KeepsState(desc, tagArg) ==
  /\ Len(detectLog) < MaxCalls
  /\ description' = desc
  /\ tags' = tagArg
  /\ info' = IF info = NoInfo THEN detectSponsorship(desc, tagArg)
             ELSE [detectSponsorship(desc, tagArg) EXCEPT
                     !.hasSponsorship = @ \/ info.hasSponsorship,
                     !.adIndicators = Dedup(info.adIndicators \o @),
                     !.detectedBrands = Dedup(info.detectedBrands \o @)]
  /\ detectLog' = Append(detectLog, [description |-> desc, tags |-> tagArg,
                                     info |-> info'])
  /\ UNCHANGED <<ts, tsOut, run, store, clock, batch, counts, metrics,
                 commentList, summary, effIn, effOut, web>>

\* one more call detectSponsorship(desc, tagArg): its variables are
\* created by the call, and nothing of an earlier call is read
DetectCall(desc, tagArg) ==
  /\ Len(detectLog) < MaxCalls
  /\ description' = desc
  /\ tags' = tagArg
  /\ info' = detectSponsorship(desc, tagArg)
  /\ detectLog' = Append(detectLog, [description |-> desc, tags |-> tagArg,
                                     info |-> info'])
  /\ UNCHANGED <<ts, tsOut, run, store, clock, batch, counts, metrics,
                 commentList, summary, effIn, effOut, web>>

InitCalls ==
  /\ description = NullStr /\ tags = NoArr /\ info = NoInfo
  /\ ts = Undefined /\ tsOut = Pending
  /\ PipelineIdle /\ EngagementIdle /\ PureCallsIdle
  /\ WebIdle

NextCalls ==
  \E desc \in CallDescriptions, tagArg \in CallTags : DetectCall(desc, tagArg)

SpecCalls == InitCalls /\ [][NextCalls]_vars

\* two callers, each calling generateAdInsightsReport for the same video
RaceRuns == {1, 2}
RaceVideoId == "v1"

InitRace ==
  /\ ts = Undefined /\ tsOut = Pending
  /\ description = NullStr /\ tags = NoArr /\ info = NoInfo
  /\ run = [r \in RunIds |-> IdleRun]
  /\ store \in StoreInputs
  /\ clock = 0
  /\ batch = IdleBatch
  /\ EngagementIdle
  /\ PureCallsIdle
  /\ WebIdle

NextRace ==
  \E r \in RaceRuns :
    \/ StartReport(r, RaceVideoId)
    \/ \E resp \in BatchVideoResponses : VideoSourceResponds(r, resp)
    \/ \E resp \in BatchCommentResponses : CommentSourceResponds(r, resp)
    \/ \E resp \in BatchGenerativeResponses : GenerativeResponds(r, resp)
    \/ \E ok \in BOOLEAN : StoreResponds(r, ok)

SpecRace == InitRace /\ [][NextRace]_vars

InitBatch ==
  /\ ts = Undefined /\ tsOut = Pending
  /\ description = NullStr /\ tags = NoArr /\ info = NoInfo
  /\ run = [r \in RunIds |-> IdleRun]
  /\ store \in StoreInputs
  /\ clock = 0
  /\ batch = IdleBatch
  /\ EngagementIdle
  /\ PureCallsIdle
  /\ WebIdle

\* the steps that follow the call of generateChannelAdInsights: the answers
\* of the collaborators and the resumption of the loop
BatchProgress ==
  \/ \E resp \in FindResponses(store, batch.channelId) : FindResponds(resp)
  \/ \E r \in RunIds :
       \/ \E resp \in BatchVideoResponses : VideoSourceResponds(r, resp)
       \/ \E resp \in BatchCommentResponses : CommentSourceResponds(r, resp)
       \/ \E resp \in BatchGenerativeResponses : GenerativeResponds(r, resp)
       \/ \E ok \in BOOLEAN : StoreResponds(r, ok)
  \/ BatchResumes

NextBatch ==
  \/ \E channelId \in ChannelIds : StartBatch(channelId)
  \/ BatchProgress

\* what every step of BatchProgress changes: each answer advances the clock,
\* each step of the batch its position
progress == <<clock, batch.pc, batch.next>>

\* every awaited call eventually answers and the awaiting function resumes
SpecBatch == InitBatch /\ [][NextBatch]_vars /\ WF_progress(BatchProgress)

(***************************************************************************)
(* SpecRefresh: a report of one video and fetchAllVideos on the same store. *)
(***************************************************************************)
\* the largest number of videos saveVideosToDatabase handles
MaxRefreshes == 1

\* the object fetchVideosFromChannel pushes for a listed video: the fields
\* of the playlist item, then the fields of videoDetails spread over them
ListedVideo(videoId, videoDetails) ==
  [FreshDoc(videoId) EXCEPT !.adInsights = videoDetails.adInsights]

\* the update of an existing document leaving its adInsights alone
saveVideosToDatabase_KeepsInsights(db, video) ==
  IF db[video.videoId] = NoDoc
  THEN [db EXCEPT ![video.videoId] = video]
  ELSE [db EXCEPT ![video.videoId] =
          [video EXCEPT !.adInsights = db[video.videoId].adInsights]]

\* one iteration of saveVideosToDatabase: Video.create when findOne finds no
\* document of the videoId, else Video.findOneAndUpdate with the video as
\* the update, which sets every field of it
saveVideosToDatabase(db, video) ==
  IF db[video.videoId] = NoDoc
  THEN [db EXCEPT ![video.videoId] = video]
  ELSE [db EXCEPT ![video.videoId] =
          [f \in DOMAIN @ \cup DOMAIN video |->
             IF f \in DOMAIN video THEN video[f] ELSE @[f]]]

\* what getVideoDetails returns for each answer of the video source
FetchedDetails == [resp \in BatchVideoResponses |-> getVideoDetails(resp)]

\* fetchAllVideos reaches a listed video: getVideoDetails answers null and
\* the video is skipped, or the video is saved, or the store throws and the
\* catch block of saveVideosToDatabase logs the error
FetchAllVideos(videoId, resp, ok) ==
  /\ Len(refreshLog) < MaxRefreshes
  /\ LET videoDetails == FetchedDetails[resp]
         outcome == IF videoDetails = NullVideo THEN "skipped"
                    ELSE IF ok THEN "saved" ELSE "throws"
     IN  /\ store' = IF outcome = "saved"
                     THEN saveVideosToDatabase(
                            store, ListedVideo(videoId, videoDetails))
                     ELSE store
         /\ refreshLog' = Append(refreshLog,
                                 [videoId |-> videoId, outcome |-> outcome,
                                  at |-> clock + 1,
                                  held |-> store[videoId] # NoDoc
                                           /\ store[videoId].adInsights
                                                # NullInsights])
  /\ clock' = clock + 1
  /\ UNCHANGED <<ts, tsOut, description, tags, info, run, batch, counts,
                 metrics, pureCalls, adInsightDocs, http>>

InitRefresh == InitRace

NextRefresh ==
  \/ \E r \in ReportRuns :
       \/ StartReport(r, RaceVideoId)
       \/ \E resp \in BatchVideoResponses : VideoSourceResponds(r, resp)
       \/ \E resp \in BatchCommentResponses : CommentSourceResponds(r, resp)
       \/ \E resp \in BatchGenerativeResponses : GenerativeResponds(r, resp)
       \/ \E ok \in BOOLEAN : StoreResponds(r, ok)
  \/ \E videoId \in VideoIds, resp \in BatchVideoResponses, ok \in BOOLEAN :
       FetchAllVideos(videoId, resp, ok)

SpecRefresh == InitRefresh /\ [][NextRefresh]_vars

(***************************************************************************)
(* The two channel routes of the server.                                   *)
(***************************************************************************)
\* the stored videos of a channel
VideosOf(channelId) ==
  {v \in VideoIds : store[v] # NoDoc /\ store[v].channelId = channelId}

\* POST /api/channels/:channelId/generate-insights: Video.findOne fails
\* (500), finds no video of the channel (404), or the route answers and
\* calls generateChannelAdInsights without awaiting it
PostGenerateInsights(channelId, findFails) ==
  /\ http.post = NoResponse
  /\ batch.pc = "idle"
  /\ IF findFails
     THEN /\ http' = [http EXCEPT !.post = [code |-> 500, success |-> FALSE]]
          /\ batch' = batch
     ELSE IF VideosOf(channelId) = {}
     THEN /\ http' = [http EXCEPT !.post = [code |-> 404, success |-> FALSE]]
          /\ batch' = batch
     ELSE /\ http' = [http EXCEPT !.post = [code |-> 200, success |-> TRUE]]
          /\ batch' = [IdleBatch EXCEPT !.pc = "find",
                                        !.channelId = channelId]
  /\ UNCHANGED <<ts, tsOut, description, tags, info, run, store, clock,
                 counts, metrics, pureCalls, adInsightDocs, refreshLog>>

\* the answer of the status route from the two counts; asked records the
\* state of the batch at the time of the request
StatusOf(channelId, totalVideos, processedVideos) ==
  [code |-> 200, success |-> TRUE, channelId |-> channelId,
   totalVideos |-> totalVideos,
   processedVideos |-> processedVideos,
   progress |-> IF totalVideos > 0
                THEN RMul(Rat(processedVideos, totalVideos), R(100))
                ELSE R(0),
   isComplete |-> processedVideos >= totalVideos,
   asked |-> [pc |-> batch.pc, channelId |-> batch.channelId,
              processed |-> batch.results.processed]]

\* GET /api/channels/:channelId/insights-status: the videos of the channel
\* in the Video collection and the documents of the channel in the
\* AdInsight collection are counted
GetInsightsStatus(channelId, fails) ==
  /\ http.status = NoResponse
  /\ http' = [http EXCEPT !.status =
               IF fails THEN [code |-> 500, success |-> FALSE]
               ELSE StatusOf(channelId, Cardinality(VideosOf(channelId)),
                             Cardinality({d \in adInsightDocs :
                                            d.channelId = channelId}))]
  /\ UNCHANGED <<ts, tsOut, description, tags, info, run, store, clock, batch,
                 counts, metrics, pureCalls, adInsightDocs, refreshLog>>

\* the channel holds no video, one video, or all of them
StatusStores ==
  {db \in StoreInputs :
     Cardinality({v \in VideoIds : db[v] # NoDoc}) \in {0, 1, 3}}

InitStatus ==
  /\ ts = Undefined /\ tsOut = Pending
  /\ description = NullStr /\ tags = NoArr /\ info = NoInfo
  /\ run = [r \in RunIds |-> IdleRun]
  /\ store \in StatusStores
  /\ clock = 0
  /\ batch = IdleBatch
  /\ EngagementIdle
  /\ PureCallsIdle
  /\ WebIdle

NextStatus ==
  \/ \E channelId \in ChannelIds, findFails \in BOOLEAN :
       PostGenerateInsights(channelId, findFails)
  \/ \E channelId \in ChannelIds, fails \in BOOLEAN :
       GetInsightsStatus(channelId, fails)
  \/ BatchProgress

SpecStatus == InitStatus /\ [][NextStatus]_vars

(***************************************************************************)
(* Properties of convertTimestampToSeconds.                                 *)
(***************************************************************************)
\* one, two or three parts of one or more digits, separated by colons
WellFormedTimestamp(x) ==
  /\ x.t = "string"
  /\ x.v # <<>>
  /\ \A i \in DOMAIN x.v : IsDigit(x.v[i]) \/ x.v[i] = ":"
  /\ Cardinality({i \in DOMAIN x.v : x.v[i] = ":"}) <= 2
  /\ x.v[1] # ":" /\ x.v[Len(x.v)] # ":"
  /\ \A i \in 1..(Len(x.v) - 1) : ~(x.v[i] = ":" /\ x.v[i + 1] = ":")

\* the seconds of a well-formed timestamp, read digit by digit in base 10 and
\* part by part in base 60
RECURSIVE SecondsOf(_, _, _)
SecondsOf(s, total, part) ==
  IF s = <<>> THEN total + part
  ELSE IF Head(s) = ":" THEN SecondsOf(Tail(s), (total + part) * 60, 0)
       ELSE SecondsOf(Tail(s), total, part * 10 + DigitVal(Head(s)))

\* C2: for every input that is not one, two or three colon-separated
\* non-negative integers, convertTimestampToSeconds returns null.
C2_NullUnlessWellFormed ==
  (tsOut # Pending /\ ~WellFormedTimestamp(ts)) => tsOut = Null

\* C3: for every input s, m:s or h:m:s with non-negative integer parts,
\* convertTimestampToSeconds returns s, 60*m + s or 3600*h + 60*m + s.
C3_WellFormedValue ==
  (tsOut # Pending /\ WellFormedTimestamp(ts))
    => tsOut = Num(SecondsOf(ts.v, 0, 0))

\* 1:00:30 has been converted, to 3630
C3_Witness ==
  /\ ts = Str(<<"1", ":", "0", "0", ":", "3", "0">>)
  /\ tsOut = Num(3630)

(***************************************************************************)
(* Properties of detectSponsorship.                                         *)
(***************************************************************************)
\* w occurs in s when the case of the letters of s is ignored
ContainsIgnoringCase(s, w) ==
  \E p \in 1..Len(s) :
    /\ p + Len(w) - 1 <= Len(s)
    /\ \A k \in 1..Len(w) : LowerChar(s[p + k - 1]) = w[k]

\* whether the timestamp + ad-word pattern occurs in s from position p on,
\* decided by an automaton over the stages of the pattern: the first time
\* (digits, colon, digits), white space, dash, white space, the optional
\* second time, white space, the ad word
RECURSIVE PatternFrom(_, _, _)
PatternFrom(s, p, stage) ==
  LET c == IF p <= Len(s) THEN s[p] ELSE "end"
      Step(next) == PatternFrom(s, p + 1, next)
      Skip(next) == PatternFrom(s, p, next)
  IN  CASE stage = "time1" ->
             \/ IsDigit(c) /\ Step("time1")
             \/ c = ":" /\ Step("time1b")
             \/ Skip("space1")
        [] stage = "time1b" -> (IsDigit(c) /\ Step("time1b")) \/ Skip("space1")
        [] stage = "space1" ->
             \/ IsSpace(c) /\ Step("space1")
             \/ c = "-" /\ Step("space2")
             \/ Skip("space2")
        [] stage = "space2" ->
             \/ IsSpace(c) /\ Step("space2")
             \/ IsDigit(c) /\ Step("time2")
             \/ Skip("space3")
        [] stage = "time2" ->
             \/ IsDigit(c) /\ Step("time2")
             \/ c = ":" /\ Step("time2b")
             \/ Skip("space3")
        [] stage = "time2b" -> (IsDigit(c) /\ Step("time2b")) \/ Skip("space3")
        [] stage = "space3" ->
             \/ IsSpace(c) /\ Step("space3")
             \/ \E k \in DOMAIN AdWords :
                  /\ p + Len(AdWords[k]) - 1 <= Len(s)
                  /\ \A j \in 1..Len(AdWords[k]) :
                       LowerChar(s[p + j - 1]) = AdWords[k][j]

PatternOccurs(s) ==
  \E i \in DOMAIN s : IsDigit(s[i]) /\ PatternFrom(s, i + 1, "time1")

\* C1: adDuration is absent (null) or a non-negative number of seconds,
\* never negative and never a non-number.
C1_AdDurationAbsentOrNonNegative ==
  info # NoInfo =>
    \/ info.adDuration = Null
    \/ IsNum(info.adDuration) /\ info.adDuration.v >= 0

\* C4: when the description contains an indicator phrase, in any case,
\* hasSponsorship is true and adIndicators holds every indicator phrase that
\* occurs in the lower-cased description.
C4_IndicatorDetected ==
  (info # NoInfo /\ description.t = "string") =>
    \A k \in DOMAIN sponsorKeywords :
      ContainsIgnoringCase(description.v, sponsorKeywords[k]) =>
        /\ info.hasSponsorship
        /\ sponsorKeywords[k] \in Range(info.adIndicators)

\* a phrase that occurs only with another case than the list's was recorded
C4_Witness ==
  /\ info # NoInfo
  /\ \E k \in DOMAIN sponsorKeywords :
       /\ ContainsIgnoringCase(description.v, sponsorKeywords[k])
       /\ ~includes(description.v, sponsorKeywords[k])
       /\ info.hasSponsorship
       /\ sponsorKeywords[k] \in Range(info.adIndicators)

\* no indicator phrase in the description or in a tag, and no timestamp +
\* ad-word pattern in the description
NothingToDetect ==
  /\ \A k \in DOMAIN sponsorKeywords :
       /\ ~ContainsIgnoringCase(description.v, sponsorKeywords[k])
       /\ \A i \in DOMAIN tags.v :
            ~ContainsIgnoringCase(tags.v[i], sponsorKeywords[k])
  /\ ~PatternOccurs(description.v)

\* C5: with no indicator phrase in the description or the tags and no
\* timestamp + ad-word pattern, hasSponsorship is false, adIndicators is
\* empty and adDuration is absent; an absent description included.
C5_NothingDetected ==
  (info # NoInfo /\ NothingToDetect) =>
    /\ ~info.hasSponsorship
    /\ info.adIndicators = <<>>
    /\ info.adDuration = Null

\* a description with a time but no ad word, and a brand tag: not sponsored
C5_Witness ==
  /\ info # NoInfo
  /\ NothingToDetect
  /\ \E i \in DOMAIN description.v : IsDigit(description.v[i])
  /\ info.detectedBrands # <<>>
  /\ ~info.hasSponsorship

(***************************************************************************)
(* Properties of analyzeVideoContent and generateAdInsightsReport.          *)
(***************************************************************************)
Composed(r) == run[r].pc \in {"save", "done"} /\ run[r].analysis # NoAnalysis

\* C6: when the generative-text call fails, analyzeVideoContent returns
\* "Analysis failed", "Unknown" and 0, and generateAdInsightsReport goes on to
\* assemble and persist a report and returns {success: true, report} with
\* those values.
C6_GenerativeFailureContained ==
  \A r \in RunIds :
    run[r].gen = "throws" =>
      /\ Composed(r)
      /\ run[r].analysis.aiInsights = AnalysisFailedText
      /\ run[r].analysis.adStyle = "Unknown"
      /\ run[r].analysis.adEffectiveness = R(0)
      /\ "findOneAndUpdate" \in Range(run[r].calls)
      /\ run[r].report.aiInsights = AnalysisFailedText
      /\ run[r].report.adStyle = "Unknown"
      /\ run[r].report.adEffectiveness = R(0)
      /\ run[r].pc = "done" =>
           /\ run[r].result = [success |-> TRUE, report |-> run[r].report]
           /\ (run[r].saved = "ok" /\ store[run[r].videoId] # NoDoc) =>
                /\ store[run[r].videoId].adInsights.aiAnalysis = AnalysisFailedText
                /\ store[run[r].videoId].adInsights.adStyle = "Unknown"
                /\ store[run[r].videoId].adInsights.adEffectiveness = R(0)

\* a run whose generative call failed has returned success
C6_Witness ==
  \E r \in RunIds :
    /\ run[r].gen = "throws"
    /\ run[r].pc = "done"
    /\ run[r].result.success
    /\ run[r].result.report.aiInsights = AnalysisFailedText
    /\ run[r].saved = "ok"
    /\ store[run[r].videoId] # NoDoc

\* C7: the sentiment summary returned when the generative-text call fails has
\* the fields and values of the summary of an empty comment list.
C7_FailureSentimentIsEmptySummary ==
  \A r \in RunIds :
    (run[r].gen = "throws" /\ Composed(r)) =>
      run[r].analysis.adSentiment = analyzeCommentSentiment(<<>>)

\* C8: when sponsorship was detected and adDuration is a number, 0 included,
\* a successful analyzeVideoContent returns "Long-form" if adDuration > 60
\* and "Short-form" otherwise, whatever the reply says.
C8_DurationAuthoritative ==
  \A r \in RunIds :
    (/\ run[r].gen = "reply"
     /\ Composed(r)
     /\ run[r].videoData.sponsorshipInfo.hasSponsorship
     /\ IsNum(run[r].videoData.sponsorshipInfo.adDuration)) =>
      run[r].analysis.adStyle =
        IF run[r].videoData.sponsorshipInfo.adDuration.v > 60
        THEN "Long-form" ELSE "Short-form"

\* C9: when sponsorship was not detected adStyle is "Unknown" whatever the
\* reply contains; when it was detected and no adDuration is available,
\* adStyle is "Long-form" or "Short-form" as the lower-cased reply contains
\* "long-form" or "short-form", and "Unknown" if it contains neither.
C9_StyleFromReply ==
  \A r \in RunIds :
    Composed(r) =>
      LET sponsorshipInfo == run[r].videoData.sponsorshipInfo
          adStyle == run[r].analysis.adStyle
          reply == run[r].analysis.aiInsights
          long == ContainsIgnoringCase(reply, <<"l","o","n","g","-","f","o","r","m">>)
          short == ContainsIgnoringCase(reply, <<"s","h","o","r","t","-","f","o","r","m">>)
      IN  /\ ~sponsorshipInfo.hasSponsorship => adStyle = "Unknown"
          /\ (/\ run[r].gen = "reply"
              /\ sponsorshipInfo.hasSponsorship
              /\ sponsorshipInfo.adDuration = Null) =>
               /\ adStyle = "Long-form" => long
               /\ adStyle = "Short-form" => short
               /\ adStyle = "Unknown" <=> (~long /\ ~short)

\* sponsorship without a duration whose style was read from the reply
C9_Witness ==
  \E r \in RunIds :
    /\ Composed(r)
    /\ run[r].gen = "reply"
    /\ run[r].videoData.sponsorshipInfo.hasSponsorship
    /\ run[r].videoData.sponsorshipInfo.adDuration = Null
    /\ run[r].analysis.adStyle = "Short-form"

\* C10: when the video source reports the video as absent, the run ends with
\* {success: false, error: "Video not found"} and has called neither the
\* comment source, nor the generative-text service, nor the store.
C10_AbsentVideoShortCircuits ==
  \A r \in RunIds :
    run[r].video = "empty" =>
      /\ run[r].pc = "done"
      /\ run[r].result = [success |-> FALSE, error |-> "Video not found"]
      /\ run[r].calls = <<"videos.list">>

\* a run ended by an absent video
C10_Witness ==
  \E r \in RunIds :
    /\ run[r].video = "empty"
    /\ run[r].pc = "done"
    /\ ~run[r].result.success

(***************************************************************************)
(* Properties of calculateEngagementMetrics.                                *)
(***************************************************************************)
\* C19: for every viewCount <= 0 and every likeCount and commentCount, the
\* four fields calculateEngagementMetrics returns are all 0.
C19_NoViewsAllZero ==
  (metrics # NoMetrics /\ counts.viewCount <= 0) =>
    metrics = [likeToViewRatio |-> R(0), commentToViewRatio |-> R(0),
               overallEngagementRate |-> R(0), adEffectivenessScore |-> R(0)]

\* calculateEngagementMetrics(0, 5, 2) has returned four zeros
C19_Witness ==
  /\ counts = [viewCount |-> 0, likeCount |-> 5, commentCount |-> 2]
  /\ metrics # NoMetrics
  /\ metrics.overallEngagementRate = R(0)

InsightsOf(report) ==
  [lastAnalyzed |-> report.generatedAt,
   sentiment |-> report.sentimentAnalysis,
   aiAnalysis |-> report.aiInsights,
   adStyle |-> report.adStyle,
   adEffectiveness |-> report.adEffectiveness]

\* C11: when the comment source fails, getVideoComments yields an empty list
\* and the run goes on to return {success: true, report} whose sentiment
\* summary is the summary of zero comments.
C11_CommentFailureNotFatal ==
  \A r \in RunIds :
    run[r].commentSource = "throws" =>
      /\ run[r].comments = <<>>
      /\ run[r].pc \in {"generate", "save", "done"}
      /\ run[r].pc = "done" =>
           /\ run[r].result = [success |-> TRUE, report |-> run[r].report]
           /\ run[r].report.sentimentAnalysis = analyzeCommentSentiment(<<>>)

\* C12: the run returns {success: true, report} with the report it had
\* assembled before the write, whether the write to the store succeeds or
\* fails.
C12_StoreFailureKeepsResult ==
  [][\A r \in RunIds :
       (run[r].pc = "save" /\ run'[r].pc = "done") =>
         run'[r].result = [success |-> TRUE, report |-> run[r].report]]_vars

\* a run whose write failed has returned its report
C12_Witness ==
  \E r \in RunIds :
    /\ run[r].saved = "throws"
    /\ run[r].pc = "done"
    /\ run[r].result = [success |-> TRUE, report |-> run[r].report]
    /\ run[r].report # NoReport

\* C13: after a run has returned {success: true, report} with no store
\* failure, the store holds the record of that videoId, carrying the
\* report's insights, whether or not it held one before the run.
C13_PersistIsUpsert ==
  \A r \in RunIds :
    (run[r].pc = "done" /\ run[r].saved = "ok") =>
      /\ store[run[r].videoId] # NoDoc
      /\ store[run[r].videoId].videoId = run[r].videoId
      /\ store[run[r].videoId].adInsights = InsightsOf(run[r].report)

(***************************************************************************)
(* generateChannelAdInsights: the counts of a batch.                       *)
(***************************************************************************)
\* the videos the store holds for the channel of the batch
StoredOfChannel ==
  {v \in VideoIds : store[v] # NoDoc /\ store[v].channelId = batch.channelId}

\* processed + failed = number of entries <= total, at every step
CountsAgree ==
  /\ batch.results.processed + batch.results.failed
       = Len(batch.results.reports)
  /\ batch.pc \in {"report", "done"} /\ batch.videos # <<>>
       => Len(batch.results.reports) <= batch.results.total

\* the result of a batch over N videos: success, total = N, N entries, the
\* k-th entry telling the outcome of the k-th run and carrying its error
BatchResultFor(N) ==
  /\ batch.result # NoResult
  /\ batch.result.success
  /\ batch.result.results = batch.results
  /\ batch.results.total = N
  /\ batch.results.processed + batch.results.failed = N
  /\ Len(batch.results.reports) = N
  /\ batch.results.processed
       = Cardinality({k \in 1..N : run[k].result.success})
  /\ \A k \in 1..N :
       /\ batch.results.reports[k].success = run[k].result.success
       /\ ~run[k].result.success
            => batch.results.reports[k].error = run[k].result.error

\* C14 as stated: when generateChannelAdInsights completes for a channel
\* with N >= 1 stored videos, it returns success: true with total = N,
\* processed + failed = N and N entries in reports, each failed entry
\* carrying its run's error; at every step processed + failed equals the
\* number of entries and is at most total.
C14_BatchCounts ==
  /\ CountsAgree
  /\ batch.pc = "done" /\ Cardinality(StoredOfChannel) >= 1
       => BatchResultFor(Cardinality(StoredOfChannel))

\* C14 amended: the same, provided the store's lookup of the channel's
\* videos answers; when the lookup fails the batch returns
\* {success: false, error} and no video is attempted.
C14_BatchCountsWhenFound ==
  /\ CountsAgree
  /\ batch.pc = "done" /\ Cardinality(StoredOfChannel) >= 1
       => \/ BatchResultFor(Cardinality(StoredOfChannel))
          \/ /\ batch.videos = <<>>
             /\ batch.result = [success |-> FALSE, error |-> "find failed"]
             /\ batch.results.reports = <<>>

\* a batch over three videos has completed with two processed and one failed
C14_Witness ==
  /\ batch.pc = "done"
  /\ batch.result # NoResult
  /\ batch.result.success
  /\ batch.result.results.total = 3
  /\ batch.result.results.processed = 2
  /\ batch.result.results.failed = 1

\* a batch over two videos has completed with both failed
C14_AllFailed ==
  /\ batch.pc = "done"
  /\ batch.result # NoResult
  /\ batch.result.success
  /\ batch.result.results.total = 2
  /\ batch.result.results.failed = 2

(***************************************************************************)
(* generateChannelAdInsights: every video, once, in the order of the store.*)
(***************************************************************************)
\* C15: one video's failure never stops the batch: the videos the store
\* returned are attempted one by one in the store's order, each exactly
\* once, the entries of reports follow the same order, and a completed
\* batch has attempted every one of them, whatever the earlier outcomes.
C15_EveryVideoOnceInOrder ==
  /\ Len(batch.started) <= Len(batch.videos)
  /\ \A k \in DOMAIN batch.started :
       /\ batch.started[k] = batch.videos[k].videoId
       /\ run[k].pc # "idle"
       /\ run[k].videoId = batch.videos[k].videoId
  /\ \A k \in DOMAIN batch.videos :
       Cardinality({r \in RunIds : /\ run[r].pc # "idle"
                                   /\ run[r].videoId = batch.videos[k].videoId})
         <= 1
  /\ Len(batch.results.reports) <= Len(batch.started)
  /\ \A k \in DOMAIN batch.results.reports :
       batch.results.reports[k].videoId = batch.videos[k].videoId
  /\ batch.pc = "done"
       => /\ Len(batch.started) = Len(batch.videos)
          /\ Len(batch.results.reports) = Len(batch.videos)

\* a batch over three videos, the store's order not the order of the ids,
\* has completed although the runs of its first two videos failed
C15_Witness ==
  /\ batch.pc = "done"
  /\ Len(batch.videos) = 3
  /\ batch.videos[1].videoId = "v3"
  /\ ~run[1].result.success
  /\ ~run[2].result.success
  /\ run[3].result.success
  /\ Len(batch.results.reports) = 3

(***************************************************************************)
(* generateChannelAdInsights: one per-video run at a time.                 *)
(***************************************************************************)
\* the per-video run r has been called and has not returned
InFlight(r) == run[r].pc \notin {"idle", "done"}

\* the per-video run r has returned; when it composed a report its store
\* write has answered
Terminal(r) ==
  /\ run[r].pc = "done"
  /\ run[r].result # NoResult
  /\ run[r].result.success => run[r].saved \in {"ok", "throws"}

\* C16: the per-video runs of a batch are strictly sequential: at most
\* one is in flight at any moment, and the run of video k+1 has started
\* only if the run of video k has returned, its Persist stage included.
C16_OneRunAtATime ==
  /\ Cardinality({r \in RunIds : InFlight(r)}) <= 1
  /\ \A k \in RunIds :
       (k > 1 /\ run[k].pc # "idle") => Terminal(k - 1)

\* the run of the second video awaits its store write, the run of the first
\* video having returned after its own
C16_Witness ==
  /\ batch.pc = "report"
  /\ batch.next = 2
  /\ run[2].pc = "save"
  /\ run[1].pc = "done"
  /\ run[1].saved = "ok"

(***************************************************************************)
(* Both operations return a result value.                                  *)
(***************************************************************************)
\* {success: true, payload} or {success: false, error}
ResultValue(x, payload) ==
  /\ x # NoResult
  /\ "success" \in DOMAIN x
  /\ IF x.success THEN DOMAIN x = {"success", payload}
                  ELSE DOMAIN x = {"success", "error"}

RunReturned(r) ==
  run[r].pc = "done" /\ ResultValue(run[r].result, "report")

BatchReturned ==
  batch.pc = "done" /\ ResultValue(batch.result, "results")

\* C17: whatever the video source, the comment source, the generative
\* service and the store answer, and provided every awaited call answers,
\* the called generateChannelAdInsights and every generateAdInsightsReport
\* called eventually have returned a result value, {success: true, payload}
\* or {success: false, error}.
C17_ReturnsResultValue ==
  (batch.pc # "idle" \/ \E r \in RunIds : run[r].pc # "idle")
    ~> (BatchReturned /\ \A r \in RunIds : run[r].pc # "idle" => RunReturned(r))

\* a run whose comment source, generative service and store write all
\* failed has returned a report, and so has the batch around it
C17_Witness ==
  /\ BatchReturned
  /\ batch.result.success
  /\ \E r \in RunIds :
       /\ RunReturned(r)
       /\ run[r].commentSource = "throws"
       /\ run[r].gen = "throws"
       /\ run[r].saved = "throws"
       /\ run[r].result.success

\* the store's lookup of the channel failed and the batch has returned
\* {success: false, error}
C17_LookupFailed ==
  /\ BatchReturned
  /\ batch.result = [success |-> FALSE, error |-> "find failed"]

(***************************************************************************)
(* Two concurrent runs for one video.                                      *)
(***************************************************************************)
\* the runs whose write for videoId the store has accepted
Writers(videoId) ==
  {r \in RunIds : run[r].videoId = videoId /\ run[r].saved = "ok"}

\* the run whose write for videoId happened last
LastWriter(videoId) ==
  CHOOSE r \in Writers(videoId) :
    \A q \in Writers(videoId) : run[q].savedAt <= run[r].savedAt

\* C18: when two runs for the same videoId are in flight together, each
\* returns its own result, and the insights stored for the videoId are, all
\* five fields, those of the run whose write happened last, never a mixture
\* of the two runs.
C18_LastWriteWins ==
  /\ \A r \in RunIds :
       (run[r].pc = "done" /\ run[r].report # NoReport)
         => run[r].result = [success |-> TRUE, report |-> run[r].report]
  /\ \A v \in VideoIds :
       (store[v] # NoDoc /\ Writers(v) # {})
         => store[v].adInsights = InsightsOf(run[LastWriter(v)].report)
  /\ \A v \in VideoIds :
       (store[v] # NoDoc /\ Writers(v) = {})
         => store[v].adInsights = NullInsights

\* both runs were in flight together and have returned, the run that
\* composed its report first wrote last, and the store holds its insights
C18_Witness ==
  /\ run[1].pc = "done" /\ run[2].pc = "done"
  /\ run[1].videoId = run[2].videoId
  /\ run[1].saved = "ok" /\ run[2].saved = "ok"
  /\ run[1].report.generatedAt < run[2].report.generatedAt
  /\ run[2].savedAt < run[1].savedAt
  /\ run[1].report.aiInsights # run[2].report.aiInsights
  /\ store[run[1].videoId] # NoDoc
  /\ store[run[1].videoId].adInsights = InsightsOf(run[1].report)

(***************************************************************************)
(* analyzeCommentSentiment: the three classes.                             *)
(***************************************************************************)
\* the binary64 next above x
DNext(x) == Carried(Increment(x.m), x.e)

\* x and y are the same binary64 or neighbours
Adjacent(x, y) == x = y \/ DNext(x) = y \/ DNext(y) = x

\* positivePercentage + negativePercentage + neutralPercentage, as the
\* program would add them
PercentageSum(p) ==
  DAdd(DAdd(p.positivePercentage, p.negativePercentage), p.neutralPercentage)

\* what holds of every returned summary whatever the rounding: the counts
\* of a non-empty list sum to totalComments, the length of the list, and
\* the percentages are those of the counts; for an empty or absent list
\* totalComments, the percentages and averageSentiment are 0
CountsAndZeros ==
  summary # NoSummary =>
    IF commentList.v # <<>>
    THEN /\ summary.counters.positiveCount + summary.counters.negativeCount
              + summary.counters.neutralCount = summary.value.totalComments
         /\ summary.value.totalComments = Len(commentList.v)
         /\ summary.value.positivePercentage
              = RMul(Rat(summary.counters.positiveCount,
                         Len(commentList.v)), R(100))
         /\ summary.value.negativePercentage
              = RMul(Rat(summary.counters.negativeCount,
                         Len(commentList.v)), R(100))
         /\ summary.value.neutralPercentage
              = RMul(Rat(summary.counters.neutralCount,
                         Len(commentList.v)), R(100))
         /\ RAdd(RAdd(summary.value.positivePercentage,
                      summary.value.negativePercentage),
                 summary.value.neutralPercentage) = R(100)
    ELSE /\ summary.value.totalComments = 0
         /\ summary.value.averageSentiment = R(0)
         /\ summary.value.positivePercentage = R(0)
         /\ summary.value.negativePercentage = R(0)
         /\ summary.value.neutralPercentage = R(0)
         /\ PercentageSum(summary.binary64) = DZero

\* C21 as stated: every comment falls in exactly one class, so for a
\* non-empty list the counts sum to totalComments and the three returned
\* percentages sum to 100; for an empty or absent list all are 0.
C21_PercentagesSumTo100 ==
  /\ CountsAndZeros
  /\ (summary # NoSummary /\ commentList.v # <<>>)
       => PercentageSum(summary.binary64) = DNat(100)

\* C21 amended: the same, the sum of the three returned percentages being
\* 100 up to the rounding of binary64 arithmetic: it is 100 or a neighbour
\* of 100, and exactly 100 in real arithmetic.
C21_PercentagesSumToAbout100 ==
  /\ CountsAndZeros
  /\ (summary # NoSummary /\ commentList.v # <<>>)
       => Adjacent(PercentageSum(summary.binary64), DNat(100))

\* one positive, one negative and one neutral comment have been analysed
C21_Witness ==
  /\ summary # NoSummary
  /\ summary.counters = [positiveCount |-> 1, negativeCount |-> 1,
                         neutralCount |-> 1]

(***************************************************************************)
(* calculateAdEffectiveness: the formula and its range.                    *)
(***************************************************************************)
\* min(10 * adEffectivenessScore, 100) of the arguments
EngagementTerm ==
  RMin(RMul(R(10), effIn.engagementMetrics.adEffectivenessScore), R(100))

\* the sentiment term of the returned value: twice the value less the
\* engagement term
SentimentTerm == RSub(RMul(R(2), effOut), EngagementTerm)

\* C22: for a non-negative adEffectivenessScore and percentages in [0, 100]
\* the returned value is 0.5 * min(10 * score, 100)
\* + 0.5 * ((positivePercentage - negativePercentage + 100) / 2), it lies in
\* [0, 100], and its sentiment term is 100 for all-positive, 0 for
\* all-negative and 50 for balanced or all-neutral comments.
C22_EffectivenessFormula ==
  effOut # Pending =>
    /\ effOut =
         RAdd(RMul(Rat(1, 2), EngagementTerm),
              RMul(Rat(1, 2),
                   RDiv(RAdd(RSub(effIn.sentiment.positivePercentage,
                                  effIn.sentiment.negativePercentage),
                             R(100)), R(2))))
    /\ ~RLess(effOut, R(0))
    /\ ~RLess(R(100), effOut)
    /\ (/\ effIn.sentiment.positivePercentage = R(100)
        /\ effIn.sentiment.negativePercentage = R(0)) => SentimentTerm = R(100)
    /\ (/\ effIn.sentiment.positivePercentage = R(0)
        /\ effIn.sentiment.negativePercentage = R(100)) => SentimentTerm = R(0)
    /\ effIn.sentiment.positivePercentage = effIn.sentiment.negativePercentage
         => SentimentTerm = R(50)

\* a score above 10 with all-positive comments has given 100
C22_Witness ==
  /\ effOut = R(100)
  /\ RLess(R(10), effIn.engagementMetrics.adEffectivenessScore)
  /\ effIn.sentiment.positivePercentage = R(100)
  /\ effIn.sentiment.negativePercentage = R(0)

C24_ReportSnapshot ==
  \A r \in RunIds :
    run[r].report # NoReport =>
      /\ run[r].report.title = run[r].videoData.title
      /\ run[r].report.channelId = "UC1"
      /\ run[r].report.channelTitle = "Channel One"
      /\ run[r].report.publishedAt = "2024-01-01"

\* the title alone is carried over
C24_TitleOnly ==
  \A r \in RunIds :
    run[r].report # NoReport =>
      /\ run[r].report.title = run[r].videoData.title
      /\ run[r].report.channelId = "undefined"
      /\ run[r].report.channelTitle = "undefined"
      /\ run[r].report.publishedAt = "undefined"

(***************************************************************************)
(* The status route after a batch.                                         *)
(***************************************************************************)
\* the status route has answered for the channel of the batch
StatusOfBatch ==
  /\ http.status # NoResponse
  /\ http.status.success
  /\ http.status.channelId = http.status.asked.channelId

\* C25: a status asked for after the batch started through the POST route
\* has finished with every video of the channel processed reports
\* processedVideos = totalVideos and isComplete; a status asked for while
\* the batch runs reports no more processedVideos than the batch had
\* processed by then.
C25_StatusFollowsBatch ==
  StatusOfBatch =>
    /\ http.status.processedVideos <= http.status.asked.processed
    /\ (/\ http.status.asked.pc = "done"
        /\ http.status.asked.processed = http.status.totalVideos)
         => /\ http.status.processedVideos = http.status.totalVideos
            /\ http.status.isComplete

\* what the route reports instead: no video processed, and a channel with
\* videos never complete
C25_NeverComplete ==
  StatusOfBatch =>
    /\ http.status.processedVideos = 0
    /\ http.status.totalVideos >= 1 => ~http.status.isComplete

\* a batch over three videos finished with all three processed and stored,
\* and the status route answered after that
C25_Reached ==
  /\ StatusOfBatch
  /\ http.status.asked.pc = "done"
  /\ http.status.asked.processed = 3
  /\ http.status.totalVideos = 3
  /\ \A v \in VideoIds : store[v].adInsights # NullInsights

(***************************************************************************)
(* hasSponsorship, adIndicators and detectedBrands.                        *)
(***************************************************************************)
\* the tags detectSponsorship was called with
TagsGiven == IF tags.t = "array" THEN Range(tags.v) ELSE {}

\* C26: hasSponsorship is true exactly when adIndicators is non-empty, and
\* when it is false every detected brand is one of the tags, longer than
\* three characters and starting with an upper-case letter.
C26_SponsorshipIffIndicators ==
  info # NoInfo =>
    /\ info.hasSponsorship <=> info.adIndicators # <<>>
    /\ ~info.hasSponsorship =>
         \A i \in DOMAIN info.detectedBrands :
            /\ info.detectedBrands[i] \in TagsGiven
            /\ Len(info.detectedBrands[i]) > 3
            /\ IsUpper(info.detectedBrands[i][1])

\* a brand detected from a tag without any sponsorship
C26_BrandWithoutSponsorship ==
  /\ info # NoInfo
  /\ ~info.hasSponsorship
  /\ info.adIndicators = <<>>
  /\ info.detectedBrands = << <<"N","i","k","e">> >>

\* sponsorship found by the timestamp match only
C26_TimestampOnly ==
  /\ info # NoInfo
  /\ info.hasSponsorship
  /\ info.adIndicators = <<TimestampIndicator>>

\* the pairs <<p, q>> of keywords of the list with p occurring in q
SubstringPairs ==
  {pq \in Range(sponsorKeywords) \X Range(sponsorKeywords) :
     includes(pq[2], pq[1])}

IsSubstring(p, q) == <<p, q>> \in SubstringPairs

\* C27: when adIndicators holds a keyword of the list it holds every keyword
\* of the list that is a substring of it.
C27_ClosedUnderSubstring ==
  info # NoInfo =>
    \A q \in Range(info.adIndicators) \cap Range(sponsorKeywords) :
      \A p \in Range(sponsorKeywords) :
        IsSubstring(p, q) => p \in Range(info.adIndicators)

\* "sponsored by" found in a tag brings "sponsor" and "sponsored" with it
C27_FromTag ==
  /\ info # NoInfo
  /\ description = NullStr
  /\ {<<"s","p","o","n","s","o","r","e","d"," ","b","y">>,
      <<"s","p","o","n","s","o","r","e","d">>,
      <<"s","p","o","n","s","o","r">>} = Range(info.adIndicators)

\* "thanks to our sponsor" brings "sponsor" and "thanks to" with it, while
\* "promo code" is recorded without "promotion"
C27_Witness ==
  /\ info # NoInfo
  /\ {<<"t","h","a","n","k","s"," ","t","o"," ","o","u","r"," ","s","p","o","n","s","o","r">>,
      <<"t","h","a","n","k","s"," ","t","o">>,
      <<"s","p","o","n","s","o","r">>,
      <<"p","r","o","m","o"," ","c","o","d","e">>} \subseteq Range(info.adIndicators)
  /\ <<"p","r","o","m","o","t","i","o","n">> \notin Range(info.adIndicators)

(***************************************************************************)
(* A reply that names both styles.                                         *)
(***************************************************************************)
\* the run has composed its analysis from a reply that holds both
\* "long-form" and "short-form", for a video with sponsorship and without a
\* usable adDuration
BothStylesNamed(r) ==
  /\ Composed(r)
  /\ run[r].gen = "reply"
  /\ run[r].videoData.sponsorshipInfo.hasSponsorship
  /\ ~TruthyNum(run[r].videoData.sponsorshipInfo.adDuration)
  /\ ContainsIgnoringCase(run[r].analysis.aiInsights,
                          <<"l","o","n","g","-","f","o","r","m">>)
  /\ ContainsIgnoringCase(run[r].analysis.aiInsights,
                          <<"s","h","o","r","t","-","f","o","r","m">>)

\* C28: with sponsorship detected and no usable adDuration, a reply that
\* contains both "long-form" and "short-form" gives adStyle "Long-form",
\* in whatever order the two occur.
C28_LongFormWins ==
  \A r \in RunIds : BothStylesNamed(r) => run[r].analysis.adStyle = "Long-form"

\* such a reply, with "short-form" occurring first
C28_Witness ==
  \E r \in RunIds :
    /\ BothStylesNamed(r)
    /\ run[r].analysis.aiInsights =
         <<"s","h","o","r","t","-","f","o","r","m",","," ","n","o","t"," ","l","o","n","g","-","f","o","r","m">>
    /\ run[r].analysis.adStyle = "Long-form"

(***************************************************************************)
(* Stored insights and the refresh of the videos.                          *)
(***************************************************************************)
\* a report was saved for the video after the time at
SavedAfter(videoId, at) ==
  \E r \in RunIds :
    /\ run[r].videoId = videoId
    /\ run[r].saved = "ok"
    /\ run[r].savedAt > at

\* C29: after saveVideosToDatabase has saved a video again, the five fields
\* of its stored adInsights are null, whatever a report had written there
\* before, until a report is saved again.
C29_RefreshResetsInsights ==
  \A i \in DOMAIN refreshLog :
    (/\ refreshLog[i].outcome = "saved"
     /\ ~SavedAfter(refreshLog[i].videoId, refreshLog[i].at)) =>
      store[refreshLog[i].videoId].adInsights = NullInsights

\* a report was generated and saved, then the video was fetched and saved
\* again, and the store no longer holds the insights of the report
C29_Witness ==
  \E i \in DOMAIN refreshLog, r \in RunIds :
    /\ refreshLog[i].outcome = "saved"
    /\ refreshLog[i].held
    /\ run[r].videoId = refreshLog[i].videoId
    /\ run[r].pc = "done" /\ run[r].saved = "ok"
    /\ run[r].savedAt < refreshLog[i].at
    /\ run[r].result.success
    /\ store[refreshLog[i].videoId].adInsights = NullInsights

(***************************************************************************)
(* A failing video source.                                                 *)
(***************************************************************************)
\* C30: a run whose call of the video source threw ends with {success:
\* false, error: "Video not found"}, the result of a run whose video is
\* absent, and the entry a batch records for it carries that same error.
C30_FailureReportedAsAbsent ==
  /\ \A r \in RunIds :
       run[r].video = "throws" =>
         /\ run[r].pc = "done"
         /\ run[r].result = [success |-> FALSE, error |-> "Video not found"]
         /\ run[r].calls = <<"videos.list">>
  /\ \A r, q \in RunIds :
       (run[r].video = "throws" /\ run[q].video = "empty") =>
         run[r].result = run[q].result
  /\ \A k \in DOMAIN batch.results.reports :
       run[k].video \in {"throws", "empty"} =>
         batch.results.reports[k] =
           [videoId |-> batch.videos[k].videoId,
            title |-> batch.videos[k].title,
            success |-> FALSE, error |-> "Video not found"]

\* a batch has recorded the entries of a video whose source threw and of a
\* video that is absent
C30_Witness ==
  /\ Len(batch.results.reports) >= 2
  /\ run[1].video = "throws"
  /\ run[2].video = "empty"
  /\ batch.results.reports[1].error = batch.results.reports[2].error
  /\ batch.results.failed >= 2

====
